---- MODULE Spec2Model ----
(***************************************************************************)
(* A model of the EtabsModeling geometry pipeline: the story ledger, the   *)
(* shared-plan extruders (utils/extruder.py), the per-story extruders      *)
(* (utils/level_by_level_extruder.py), the reconciler                      *)
(* (utils/build_etabs_data.py), the unit normaliser (utils/unit_config.py) *)
(* and the slab creation boundary (modeling/model_slabs.py).               *)
(*                                                                         *)
(* Numbers.  Python floats are modelled exactly.  In the extruders a       *)
(* length is a whole number of input units (ft or m).  In the reconciler,  *)
(* whose code rounds to 6 decimals and compares against 1e-3, a length is  *)
(* a whole number of ticks of 1e-7 input units.  A surface load that has   *)
(* been divided is a fraction [num, den] in lowest terms.                  *)
(***************************************************************************)
EXTENDS Integers, Sequences, FiniteSets, TLC

VARIABLES
    pc,                 \* position of the run
    unit_config,        \* UnitConfig of the run, or NoneConfig
    stories,            \* List[Story], bottom-up unless said otherwise
    base_elevation,     \* base elevation in story input units
    rect_columns,       \* List[RectColumn]
    circ_columns,       \* List[CircColumn]
    walls,              \* List[Wall]
    coupling_beams,     \* List[CouplingBeam]
    slabs,              \* List[Slab]
    dxf_points,         \* shared plan: points of the column layer
    dxf_lines,          \* shared plan: lines of the wall / beam layer
    dxf_polylines,      \* shared plan: closed polylines of the slab layer
    column_geometries,  \* List[ColumnGeom]
    wall_geometries,    \* List[WallGeom]
    beam_geometries,    \* List[BeamGeom]
    slab_geometries,    \* List[SlabGeom]
    elevations_list,    \* extruder.py calculate_story_elevations: elevations
    elevations_by_level, \* level_by_level_extruder.py calculate_story_elevations: elevations
    geom_idx,           \* create_*_in_etabs: index of the geometry in hand
    created_count,      \* create_*_in_etabs: created_count
    etabs_calls,        \* the boundary calls issued so far, in order
    sheet_rows,         \* rows of the Story sheet below its header, top-down
    heights_list,       \* build_story_mappings: heights
    base_map,           \* build_story_mappings: base_map
    top_map,            \* build_story_mappings: top_map
    columns_geo,        \* stacks of extruded column top points
    merged_columns,     \* merge_columns: merged
    walls_geo,          \* per plan line, the quads of its stories
    slabs_geo,          \* per plan polygon, the polygons of its stories
    merged_walls,       \* merge_walls: merged
    merged_slabs,       \* merge_slabs: merged
    concretes,          \* List[Concrete]
    existing_names,     \* names the modelling program holds before a define
    replay_calls,       \* the boundary calls of a second run on the same inputs
    drawing,            \* Drawing: the entities of a plan's modelspace
    query               \* the layer query last made of the drawing

frameVars == <<elevations_list, elevations_by_level>>

createVars == <<geom_idx, created_count, etabs_calls>>

ledgerVars == <<sheet_rows, heights_list, base_map, top_map, columns_geo,
                merged_columns, walls_geo, slabs_geo, merged_walls,
                merged_slabs>>

defineVars == <<concretes, existing_names, replay_calls>>

queryVars == <<drawing, query>>

vars == <<pc, unit_config, stories, base_elevation, rect_columns, circ_columns,
          walls, coupling_beams, slabs, dxf_points, dxf_lines, dxf_polylines,
          column_geometries, wall_geometries, beam_geometries, slab_geometries,
          frameVars, createVars, ledgerVars, defineVars, queryVars>>

(***************************************************************************)
(* Bounds of the model.                                                    *)
(***************************************************************************)
MaxStories == 3
MaxRecords == 2
MaxPrims == 2
MaxPlanStories == 2
\* the stories of a run that goes on to create its slabs
MaxBatchStories == 1
\* the longest batch of columns, walls, beams or slabs a run goes on to create
MaxBatch == 3

(***************************************************************************)
(* Generic helpers.                                                        *)
(***************************************************************************)
Range(s) == {s[i] : i \in DOMAIN s}

RECURSIVE Reverse(_)
Reverse(s) == IF s = <<>> THEN <<>> ELSE Append(Reverse(Tail(s)), Head(s))

RECURSIVE Flatten(_)
Flatten(ss) == IF ss = <<>> THEN <<>> ELSE Head(ss) \o Flatten(Tail(ss))

RECURSIVE SumSeq(_)
SumSeq(s) == IF s = <<>> THEN 0 ELSE Head(s) + SumSeq(Tail(s))

\* The index of the last record of a table with this level, 0 if none: a dict
\* comprehension {r.level: r for r in table} keeps the last record per key.
LastIndexOf(table, level) ==
    LET hits == {i \in DOMAIN table : table[i].level = level}
    IN  IF hits = {} THEN 0 ELSE CHOOSE i \in hits : \A j \in hits : j <= i

\* The index of the first record of a table with this level, 0 if none.
FirstIndexOf(table, level) ==
    LET hits == {i \in DOMAIN table : table[i].level = level}
    IN  IF hits = {} THEN 0 ELSE CHOOSE i \in hits : \A j \in hits : i <= j

(***************************************************************************)
(* utils/unit_config.py                                                    *)
(***************************************************************************)
US_UNITS ==
    [system |-> "US", etabs_unit_code |-> 1, length_unit |-> "in",
     force_unit |-> "lb", temp_unit |-> "F", story_input_unit |-> "ft",
     length_to_model |-> 12, force_to_model |-> 1]

METRIC_UNITS ==
    [system |-> "Metric", etabs_unit_code |-> 9, length_unit |-> "mm",
     force_unit |-> "N", temp_unit |-> "C", story_input_unit |-> "m",
     length_to_model |-> 1000, force_to_model |-> 1]

\* unit_config = None
NoneConfig == [system |-> "None"]

convert_story_height(height, cfg) == height * cfg.length_to_model

RECURSIVE GCD(_, _)
GCD(a, b) == IF b = 0 THEN a ELSE GCD(b, a % b)

\* The quotient n / d of a load by a positive divisor, in lowest terms.
Frac(n, d) == [num |-> n \div GCD(n, d), den |-> d \div GCD(n, d)]

\* A faulty conversion: the area load of the US system is passed through.
convert_load_NoDivide(load, cfg, from_area) == Frac(load, 1)

convert_load(load, cfg, from_area) ==
    IF cfg.system = "US"
    THEN IF from_area THEN Frac(load, 144) ELSE Frac(load, 1)
    ELSE Frac(load, 1)

(***************************************************************************)
(* Input domains.                                                          *)
(***************************************************************************)
LevelNames == <<"L1", "L2", "L3", "L4", "L5">>
HeightChoices == {3, 10}
BaseChoices == {0, -18}

\* Bottom-up story lists: the i-th story from the bottom is labelled Li; the
\* empty list is a list the extruders may be handed.
StoryLists ==
    UNION {{[i \in 1..n |-> [level |-> LevelNames[i], height |-> h[i]]] :
              h \in [1..n -> HeightChoices]} : n \in 0..MaxStories}

\* The levels a property record may name: L1, L2 (L2 names no story of a
\* one-story building).
RecordLevels == {"L1", "L2"}

\* Column tables: the k-th record carries the k-th name, its level is free.
ColumnTables(names) ==
    UNION {{[i \in 1..n |-> [level |-> lv[i], name |-> names[i]]] :
              lv \in [1..n -> RecordLevels]} : n \in 0..MaxRecords}

RectNames == <<"C24x24", "C30x30", "C36x36">>
CircNames == <<"D24", "D30", "D36">>

\* Plan points: the k-th point of the column layer, (x, y, z) with the
\* drawing's z of 0.
PlanPoint(k) == <<5 * k, 7 - k, 0>>
PointLists == {[i \in 1..n |-> PlanPoint(i)] : n \in 0..MaxPrims}

\* Plan lines: the k-th line of a wall or beam layer, two (x, y, z) ends.
PlanLine(k) == <<<<k, 0, 0>>, <<k, 4 + k, 0>>>>
LineLists == {[i \in 1..n |-> PlanLine(i)] : n \in 0..MaxPrims}

\* Plan polylines: the k-th closed polyline of the slab layer, k + 2 vertices.
PlanPoly(k) == [v \in 1..(k + 2) |-> <<v * k, v * v, 0>>]
PolyLists == {[i \in 1..n |-> PlanPoly(i)] : n \in 0..MaxPrims}

\* Wall tables as read_wall_table builds them: per sheet row an X-named and
\* a Y-named record of the row's level.
WallNamesX == <<"W12X", "W16X", "W20X">>
WallNamesY == <<"W12Y", "W16Y", "W20Y">>
WallTables ==
    UNION {{Flatten([i \in 1..n |->
                <<[level |-> lv[i], name |-> WallNamesX[i]],
                  [level |-> lv[i], name |-> WallNamesY[i]]>>]) :
              lv \in [1..n -> RecordLevels]} : n \in 0..MaxRecords}

\* Coupling-beam tables: the k-th record carries the k-th name.
BeamNames == <<"CBX1", "CBY1", "cbx2">>
BeamTables == ColumnTables(BeamNames)

\* Slab tables: the k-th record carries the k-th name and loads (psf).
SlabNames == <<"S8", "S10", "S12">>
SlabSdl == <<20, 0, 15>>
SlabLive == <<40, 50, 0>>
SlabTables ==
    UNION {{[i \in 1..n |-> [level |-> lv[i], name |-> SlabNames[i],
                              sdl |-> SlabSdl[i], live |-> SlabLive[i]]] :
              lv \in [1..n -> RecordLevels]} : n \in 0..MaxRecords}

(***************************************************************************)
(* utils/extruder.py                                                       *)
(***************************************************************************)
\* A faulty frame: the running elevation is never advanced past the first
\* story (current_elev = base + height instead of +=).
RECURSIVE calculate_story_elevations_NoAccumulate(_, _)
calculate_story_elevations_NoAccumulate(sts, base) ==
    IF sts = <<>> THEN <<base>>
    ELSE <<base>> \o
         [i \in 1..Len(sts) |-> base + sts[i].height]

\* calculate_story_elevations (extruder.py): the list of the n+1 cumulative
\* elevations, elevations[1] being the base (Python index 0).
RECURSIVE calculate_story_elevations(_, _)
calculate_story_elevations(sts, base) ==
    IF sts = <<>> THEN <<base>>
    ELSE <<base>> \o calculate_story_elevations(Tail(sts), base + Head(sts).height)

\* A faulty resolution: the circular table is consulted first.
ColumnPropName_CircFirst(level, rects, circs) ==
    IF LastIndexOf(circs, level) # 0 THEN circs[LastIndexOf(circs, level)].name
    ELSE IF LastIndexOf(rects, level) # 0 THEN rects[LastIndexOf(rects, level)].name
    ELSE "Default"

\* The section name of a column of this level (extruder.py 60-65).
ColumnPropName(level, rects, circs) ==
    IF LastIndexOf(rects, level) # 0 THEN rects[LastIndexOf(rects, level)].name
    ELSE IF LastIndexOf(circs, level) # 0 THEN circs[LastIndexOf(circs, level)].name
    ELSE "Default"

\* A faulty extrusion: the top story of every point is left out
\* (range(len(stories) - 1)).
extrude_points_to_columns_SkipTop(points, sts, rects, circs, base) ==
    LET elevations == calculate_story_elevations(sts, base)
        col(p, i) ==
            [start_point |-> <<points[p][1], points[p][2], elevations[i] * 12>>,
             end_point   |-> <<points[p][1], points[p][2], elevations[i + 1] * 12>>,
             prop_name   |-> ColumnPropName(sts[i].level, rects, circs),
             name        |-> ""]
    IN  Flatten([p \in DOMAIN points |-> [i \in 1..(Len(sts) - 1) |-> col(p, i)]])

extrude_points_to_columns(points, sts, rects, circs, base) ==
    LET elevations == calculate_story_elevations(sts, base)
        col(p, i) ==
            [start_point |-> <<points[p][1], points[p][2], elevations[i] * 12>>,
             end_point   |-> <<points[p][1], points[p][2], elevations[i + 1] * 12>>,
             prop_name   |-> ColumnPropName(sts[i].level, rects, circs),
             name        |-> ""]
    IN  Flatten([p \in DOMAIN points |-> [i \in DOMAIN sts |-> col(p, i)]])

\* The section name of a table keyed by level, last record winning, with the
\* sentinel for a level without a record (extruder.py 98-111, 210-228).
PropNameByLevel(level, table) ==
    IF LastIndexOf(table, level) # 0 THEN table[LastIndexOf(table, level)].name
    ELSE "Default"

extrude_lines_to_walls(lines, sts, wls, base) ==
    LET elevations == calculate_story_elevations(sts, base)
        wall(l, i) ==
            LET x1 == lines[l][1][1]
                y1 == lines[l][1][2]
                x2 == lines[l][2][1]
                y2 == lines[l][2][2]
                z_bottom == elevations[i] * 12
                z_top == elevations[i + 1] * 12
            IN  [num_points |-> 4,
                 x_coord |-> <<x1, x2, x2, x1>>,
                 y_coord |-> <<y1, y2, y2, y1>>,
                 z_coord |-> <<z_bottom, z_bottom, z_top, z_top>>,
                 prop_name |-> PropNameByLevel(sts[i].level, wls),
                 name |-> ""]
    IN  Flatten([l \in DOMAIN lines |-> [i \in DOMAIN sts |-> wall(l, i)]])

extrude_polylines_to_slabs(polylines, sts, slbs, base) ==
    LET elevations == calculate_story_elevations(sts, base)
        slab(p, i) ==
            LET z_level == elevations[i + 1] * 12
                k == LastIndexOf(slbs, sts[i].level)
                polyline == polylines[p]
            IN  [num_points |-> Len(polyline),
                 x_coord |-> [v \in DOMAIN polyline |-> polyline[v][1]],
                 y_coord |-> [v \in DOMAIN polyline |-> polyline[v][2]],
                 z_coord |-> [v \in DOMAIN polyline |-> z_level],
                 prop_name |-> IF k # 0 THEN slbs[k].name ELSE "Default",
                 name |-> <<"S", p, sts[i].level>>,
                 sdl |-> IF k # 0 THEN slbs[k].sdl ELSE 0,
                 live |-> IF k # 0 THEN slbs[k].live ELSE 0]
    IN  Flatten([p \in DOMAIN polylines |-> [i \in DOMAIN sts |-> slab(p, i)]])

extrude_lines_to_beams(lines, sts, beams, base) ==
    LET elevations == calculate_story_elevations(sts, base)
        beam(l, i) ==
            LET z_level == elevations[i + 1] * 12
            IN  [start_point |-> <<lines[l][1][1], lines[l][1][2], z_level>>,
                 end_point   |-> <<lines[l][2][1], lines[l][2][2], z_level>>,
                 prop_name   |-> PropNameByLevel(sts[i].level, beams),
                 name        |-> ""]
    IN  Flatten([l \in DOMAIN lines |-> [i \in DOMAIN sts |-> beam(l, i)]])

(***************************************************************************)
(* The parts of the state a run has not touched yet.                       *)
(***************************************************************************)
NoTables ==
    /\ rect_columns = <<>>
    /\ circ_columns = <<>>
    /\ walls = <<>>
    /\ coupling_beams = <<>>
    /\ slabs = <<>>

NoPlanPrimitives ==
    /\ dxf_points = <<>>
    /\ dxf_lines = <<>>
    /\ dxf_polylines = <<>>

NoGeometry ==
    /\ column_geometries = <<>>
    /\ wall_geometries = <<>>
    /\ beam_geometries = <<>>
    /\ slab_geometries = <<>>

NoFrame ==
    /\ elevations_list = <<>>
    /\ elevations_by_level = <<>>

NoCreation ==
    /\ geom_idx = 0
    /\ created_count = 0
    /\ etabs_calls = <<>>

NoDefinition ==
    /\ concretes = <<>>
    /\ existing_names = {}
    /\ replay_calls = <<>>

NoQuery ==
    /\ drawing = <<>>
    /\ query = [layer |-> "", closed_only |-> FALSE]

NoLedger ==
    /\ sheet_rows = <<>>
    /\ heights_list = <<>>
    /\ base_map = <<>>
    /\ top_map = <<>>
    /\ columns_geo = <<>>
    /\ merged_columns = <<>>
    /\ walls_geo = <<>>
    /\ slabs_geo = <<>>
    /\ merged_walls = <<>>
    /\ merged_slabs = <<>>

(***************************************************************************)
(* The shared-plan run: one plan extruded through every story.             *)
(***************************************************************************)
Init ==
    /\ pc = "ready"
    /\ unit_config = NoneConfig
    /\ stories \in StoryLists
    /\ base_elevation \in BaseChoices
    /\ NoTables
    /\ NoPlanPrimitives
    /\ NoGeometry
    /\ NoFrame
    /\ NoCreation
    /\ NoLedger
    /\ NoDefinition
    /\ NoQuery

ExtrudePointsToColumns ==
    /\ pc = "ready"
    /\ \E points \in PointLists,
          rects \in ColumnTables(RectNames),
          circs \in ColumnTables(CircNames) :
        /\ dxf_points' = points
        /\ rect_columns' = rects
        /\ circ_columns' = circs
        /\ column_geometries' =
               extrude_points_to_columns(points, stories, rects, circs, base_elevation)
    /\ pc' = "columns"
    /\ UNCHANGED <<frameVars, unit_config, stories, base_elevation, walls, coupling_beams,
                   slabs, dxf_lines, dxf_polylines, wall_geometries,
                   beam_geometries, slab_geometries,
                   createVars, ledgerVars, defineVars, queryVars>>

ExtrudeLinesToWalls ==
    /\ pc = "ready"
    /\ \E lines \in LineLists, wls \in WallTables :
        /\ dxf_lines' = lines
        /\ walls' = wls
        /\ wall_geometries' = extrude_lines_to_walls(lines, stories, wls, base_elevation)
    /\ pc' = "walls"
    /\ UNCHANGED <<frameVars, unit_config, stories, base_elevation, rect_columns, circ_columns,
                   coupling_beams, slabs, dxf_points, dxf_polylines,
                   column_geometries, beam_geometries, slab_geometries,
                   createVars, ledgerVars, defineVars, queryVars>>

ExtrudePolylinesToSlabs ==
    /\ pc = "ready"
    /\ \E polylines \in PolyLists, slbs \in SlabTables :
        /\ dxf_polylines' = polylines
        /\ slabs' = slbs
        /\ slab_geometries' =
               extrude_polylines_to_slabs(polylines, stories, slbs, base_elevation)
    /\ pc' = "slabs"
    /\ UNCHANGED <<frameVars, unit_config, stories, base_elevation, rect_columns, circ_columns,
                   walls, coupling_beams, dxf_points, dxf_lines,
                   column_geometries, wall_geometries, beam_geometries,
                   createVars, ledgerVars, defineVars, queryVars>>

ExtrudeLinesToBeams ==
    /\ pc = "ready"
    /\ \E lines \in LineLists, beams \in BeamTables :
        /\ dxf_lines' = lines
        /\ coupling_beams' = beams
        /\ beam_geometries' = extrude_lines_to_beams(lines, stories, beams, base_elevation)
    /\ pc' = "beams"
    /\ UNCHANGED <<frameVars, unit_config, stories, base_elevation, rect_columns, circ_columns,
                   walls, slabs, dxf_points, dxf_polylines,
                   column_geometries, wall_geometries, slab_geometries,
                   createVars, ledgerVars, defineVars, queryVars>>

Next ==
    \/ ExtrudePointsToColumns
    \/ ExtrudeLinesToWalls
    \/ ExtrudePolylinesToSlabs
    \/ ExtrudeLinesToBeams

Spec == Init /\ [][Next]_vars

(***************************************************************************)
(* Inputs of the per-story run: every story names its own plan file.       *)
(***************************************************************************)
\* One entity of a drawing's modelspace: its DXF type, its layer, its
\* coordinates, and for a polyline whether it is closed: an LWPOLYLINE
\* object carries the attribute closed, a heavy POLYLINE object is_closed
\* and no attribute closed, a POINT or a LINE neither.
Entity(kind, layer, closed, geom) ==
    IF kind = "LWPOLYLINE"
    THEN [kind |-> kind, layer |-> layer, closed |-> closed, geom |-> geom]
    ELSE IF kind = "POLYLINE"
    THEN [kind |-> kind, layer |-> layer, is_closed |-> closed, geom |-> geom]
    ELSE [kind |-> kind, layer |-> layer, geom |-> geom]

\* The plan files on disk, by path, each the entity list of a drawing.
\* "" is a story without a path, "missing.dxf" a path without a file.
PlanFiles ==
    [p \in {"planA.dxf", "planB.dxf"} |->
        IF p = "planA.dxf"
        THEN <<Entity("POINT", "REC COLS", FALSE, PlanPoint(1)),
               Entity("LINE", "WALL", FALSE, PlanLine(1)),
               Entity("POINT", "REC COLS", FALSE, PlanPoint(2)),
               Entity("POINT", "CIR COLS", FALSE, PlanPoint(3)),
               Entity("LINE", "WALL Y", FALSE, PlanLine(2)),
               Entity("LWPOLYLINE", "SLAB", TRUE, PlanPoly(1)),
               Entity("LINE", "CB X", FALSE, PlanLine(3)),
               Entity("LINE", "CB Y", FALSE, PlanLine(4)),
               Entity("LWPOLYLINE", "SLAB", TRUE, PlanPoly(2))>>
        ELSE <<Entity("POINT", "REC COLS", FALSE, PlanPoint(4)),
               Entity("LINE", "WALL", FALSE, PlanLine(5)),
               Entity("LINE", "wall", FALSE, PlanLine(6)),
               Entity("LWPOLYLINE", "SLAB", TRUE, PlanPoly(2))>>]

\* The files on disk that ezdxf.readfile refuses (IOError or
\* DXFStructureError).
CorruptFiles == {"corrupt.dxf"}

PathChoices == {"", "missing.dxf", "planA.dxf", "planB.dxf", "corrupt.dxf"}

\* os.path.exists(path)
PathExists(path) == path \in (DOMAIN PlanFiles) \cup CorruptFiles

\* A drawing without primitives.
EmptyDrawing == <<>>

\* The handlers of read_dxf_plan left out: a refused file reads as an empty
\* drawing and the run goes on.
read_dxf_plan_Swallow(path) ==
    IF path \in CorruptFiles THEN <<EmptyDrawing>> ELSE <<PlanFiles[path]>>

\* read_dxf_plan(path) of an existing file: <<doc>> when the file reads,
\* <<>> when the read ends the process (sys.exit).
read_dxf_plan(path) ==
    IF path \in CorruptFiles THEN <<>> ELSE <<PlanFiles[path]>>

\* e.dxf.layer == layer, and layer=="..." of the entity query: equality of
\* the two strings.
LayerEq(entity_layer, layer) == entity_layer = layer

\* msp.query(kinds) narrowed to a layer, in modelspace order.
QueryLayer(doc, kinds, layer) ==
    SelectSeq(doc, LAMBDA e : e.kind \in kinds /\ LayerEq(e.layer, layer))

get_points_by_layer(doc, layer) ==
    [k \in DOMAIN QueryLayer(doc, {"POINT"}, layer) |->
        QueryLayer(doc, {"POINT"}, layer)[k].geom]

get_lines_by_layer(doc, layer) ==
    [k \in DOMAIN QueryLayer(doc, {"LINE"}, layer) |->
        QueryLayer(doc, {"LINE"}, layer)[k].geom]

\* The vertices get_polylines_by_layer reports for a polyline: an
\* LWPOLYLINE gives (x, y, 0.0), a POLYLINE the location of each vertex.
PolylinePts(e) ==
    IF e.kind = "LWPOLYLINE"
    THEN [v \in DOMAIN e.geom |-> <<e.geom[v][1], e.geom[v][2], 0>>]
    ELSE e.geom

\* The loop of get_polylines_by_layer over the polylines left of the
\* modelspace, polys the list built so far: an entity of another layer is
\* passed over; "closed_only and not e.closed" reads e.closed only when
\* closed_only is set, and raises AttributeError on an entity without it.
RECURSIVE PolylinesFrom(_, _, _, _)
PolylinesFrom(entities, layer, closed_only, polys) ==
    IF entities = <<>> THEN [raised |-> "None", polys |-> polys]
    ELSE LET e == Head(entities)
         IN  IF ~LayerEq(e.layer, layer)
             THEN PolylinesFrom(Tail(entities), layer, closed_only, polys)
             ELSE IF closed_only /\ "closed" \notin DOMAIN e
             THEN [raised |-> "AttributeError", polys |-> <<>>]
             ELSE IF closed_only /\ ~e.closed
             THEN PolylinesFrom(Tail(entities), layer, closed_only, polys)
             ELSE PolylinesFrom(Tail(entities), layer, closed_only,
                                Append(polys, PolylinePts(e)))

\* get_polylines_by_layer(doc, layer, closed_only): how it ends, raised the
\* exception it raises ("None": it returns) and polys the list returned.
get_polylines_by_layer_closed(doc, layer, closed_only) ==
    PolylinesFrom(SelectSeq(doc, LAMBDA e : e.kind \in {"LWPOLYLINE", "POLYLINE"}),
                  layer, closed_only, <<>>)

\* get_polylines_by_layer with closed_only left at its default: e.closed is
\* not read and the list is returned.
get_polylines_by_layer(doc, layer) ==
    get_polylines_by_layer_closed(doc, layer, FALSE).polys

\* The bottom-up stories argument of process_all_levels: Story objects as
\* the Story dataclass and read_story_table build them, which carry no
\* dxf_path, or Story objects on which a dxf_path has been set from outside.
PlanStoryLists ==
    UNION {{[i \in 1..n |-> [level |-> LevelNames[i], height |-> h[i]]] :
              h \in [1..n -> HeightChoices]}
           \cup
           {[i \in 1..n |-> [level |-> LevelNames[i], height |-> h[i],
                              dxf_path |-> path[i]]] :
              h \in [1..n -> HeightChoices], path \in [1..n -> PathChoices]} :
           n \in 1..MaxPlanStories}

\* The five section-table arguments of process_all_levels, records built as
\* their dataclasses declare them: the tables list the same levels record
\* by record, and one table may be empty.
Sheets == {"rect", "circ", "walls", "beams", "slabs"}
LevelTables ==
    UNION {{[rect  |-> IF omit = "rect" THEN <<>>
                       ELSE [i \in 1..n |-> [level |-> lv[i], name |-> RectNames[i]]],
             circ  |-> IF omit = "circ" THEN <<>>
                       ELSE [i \in 1..n |-> [level |-> lv[i], name |-> CircNames[i]]],
             walls |-> IF omit = "walls" THEN <<>>
                       ELSE Flatten([i \in 1..n |->
                               <<[level |-> lv[i], name |-> WallNamesX[i]],
                                 [level |-> lv[i], name |-> WallNamesY[i]]>>]),
             beams |-> IF omit = "beams" THEN <<>>
                       ELSE [i \in 1..n |-> [level |-> lv[i], name |-> BeamNames[i]]],
             slabs |-> IF omit = "slabs" THEN <<>>
                       ELSE [i \in 1..n |-> [level |-> lv[i], name |-> SlabNames[i],
                                              sdl |-> SlabSdl[i], live |-> SlabLive[i]]]] :
              lv \in [1..n -> RecordLevels], omit \in Sheets \cup {"none"}} :
           n \in 0..MaxRecords}

(***************************************************************************)
(* The layer queries of one drawing.                                       *)
(***************************************************************************)
MaxEntities == 2

QueryLayers == {"WALL", "wall", "WALL Y", "SLAB"}

\* The entities a drawing may hold: every kind on every layer; polylines
\* open or closed, the heavy ones with vertices off the plane z = 0.
EntityChoices ==
    {Entity("POINT", l, FALSE, PlanPoint(1)) : l \in QueryLayers}
    \cup {Entity("LINE", l, FALSE, PlanLine(1)) : l \in QueryLayers}
    \cup {Entity("LWPOLYLINE", l, c, PlanPoly(1)) : l \in QueryLayers, c \in BOOLEAN}
    \cup {Entity("POLYLINE", l, c, [v \in 1..3 |-> <<v, v * v, 2>>]) :
            l \in QueryLayers, c \in BOOLEAN}

Drawings == UNION {[1..n -> EntityChoices] : n \in 0..MaxEntities}

InitQuery ==
    /\ pc = "ready"
    /\ unit_config = NoneConfig
    /\ stories = <<>>
    /\ base_elevation = 0
    /\ NoTables
    /\ NoPlanPrimitives
    /\ NoGeometry
    /\ NoFrame
    /\ NoCreation
    /\ NoLedger
    /\ NoDefinition
    /\ drawing \in Drawings
    /\ query = [layer |-> "", closed_only |-> FALSE]

\* The three layer queries of the drawing for one layer name, each of
\* them returning.
QueryPlan ==
    /\ pc = "ready"
    /\ \E layer \in QueryLayers \cup {"CB X"}, closed_only \in BOOLEAN :
        /\ get_polylines_by_layer_closed(drawing, layer, closed_only).raised = "None"
        /\ query' = [layer |-> layer, closed_only |-> closed_only]
        /\ dxf_points' = get_points_by_layer(drawing, layer)
        /\ dxf_lines' = get_lines_by_layer(drawing, layer)
        /\ dxf_polylines' =
               get_polylines_by_layer_closed(drawing, layer, closed_only).polys
    /\ pc' = "queried"
    /\ UNCHANGED <<frameVars, unit_config, stories, base_elevation, rect_columns, circ_columns,
                   walls, coupling_beams, slabs, column_geometries, wall_geometries,
                   beam_geometries, slab_geometries, createVars, ledgerVars,
                   defineVars, drawing>>

\* The three layer queries, the polyline query raising: the points and the
\* lines have come back, no polyline list does.
QueryPlanRaises ==
    /\ pc = "ready"
    /\ \E layer \in QueryLayers \cup {"CB X"}, closed_only \in BOOLEAN :
        /\ get_polylines_by_layer_closed(drawing, layer, closed_only).raised # "None"
        /\ query' = [layer |-> layer, closed_only |-> closed_only]
        /\ dxf_points' = get_points_by_layer(drawing, layer)
        /\ dxf_lines' = get_lines_by_layer(drawing, layer)
    /\ pc' = "query raised"
    /\ UNCHANGED <<frameVars, unit_config, stories, base_elevation, rect_columns, circ_columns,
                   walls, coupling_beams, slabs, dxf_polylines, column_geometries,
                   wall_geometries, beam_geometries, slab_geometries, createVars,
                   ledgerVars, defineVars, drawing>>

NextQuery ==
    \/ QueryPlan
    \/ QueryPlanRaises

SpecQuery == InitQuery /\ [][NextQuery]_vars

(***************************************************************************)
(* utils/level_by_level_extruder.py                                        *)
(***************************************************************************)
\* The loop of calculate_story_elevations (level_by_level_extruder.py):
\* elevations[story.level] = current_elev, then current_elev += story.height.
\* The dict is a function from the levels set so far; a later story of a
\* level overwrites the entry of an earlier one.
RECURSIVE ElevationsByLevelFrom(_, _, _)
ElevationsByLevelFrom(sts, current_elev, elevations) ==
    IF sts = <<>> THEN elevations
    ELSE ElevationsByLevelFrom(
             Tail(sts), current_elev + Head(sts).height,
             [l \in (DOMAIN elevations) \cup {Head(sts).level} |->
                 IF l = Head(sts).level THEN current_elev ELSE elevations[l]])

\* calculate_story_elevations (level_by_level_extruder.py): the dict from a
\* level to the floor elevation of the story of that level; unit_config is
\* not read.
calculate_story_elevations_by_level(sts, base) ==
    ElevationsByLevelFrom(sts, base, <<>>)

(***************************************************************************)
(* The two calculate_story_elevations applied to one story list, the one   *)
(* of utils/extruder.py first.                                             *)
(***************************************************************************)
\* The levels a story of the list may carry: two stories may share one.
FrameLevels == {"L1", "L2", "L3"}

\* The stories argument of either function: any levels, positive heights.
FrameStoryLists ==
    UNION {{[i \in 1..n |-> [level |-> lv[i], height |-> h[i]]] :
              lv \in [1..n -> FrameLevels], h \in [1..n -> HeightChoices]} :
           n \in 0..MaxStories}

InitFrame ==
    /\ pc = "ready"
    /\ unit_config = NoneConfig
    /\ stories \in FrameStoryLists
    /\ base_elevation \in BaseChoices
    /\ NoTables
    /\ NoPlanPrimitives
    /\ NoGeometry
    /\ NoFrame
    /\ NoCreation
    /\ NoLedger
    /\ NoDefinition
    /\ NoQuery

CalculateStoryElevations ==
    /\ pc = "ready"
    /\ elevations_list' = calculate_story_elevations(stories, base_elevation)
    /\ pc' = "frame"
    /\ UNCHANGED <<unit_config, stories, base_elevation, rect_columns, circ_columns,
                   walls, coupling_beams, slabs, dxf_points, dxf_lines,
                   dxf_polylines, column_geometries, wall_geometries,
                   beam_geometries, slab_geometries, elevations_by_level,
                   createVars, ledgerVars, defineVars, queryVars>>

CalculateStoryElevationsByLevel ==
    /\ pc = "frame"
    /\ elevations_by_level' = calculate_story_elevations_by_level(stories, base_elevation)
    /\ pc' = "floors"
    /\ UNCHANGED <<unit_config, stories, base_elevation, rect_columns, circ_columns,
                   walls, coupling_beams, slabs, dxf_points, dxf_lines,
                   dxf_polylines, column_geometries, wall_geometries,
                   beam_geometries, slab_geometries, elevations_list,
                   createVars, ledgerVars, defineVars, queryVars>>

NextFrame ==
    \/ CalculateStoryElevations
    \/ CalculateStoryElevationsByLevel

SpecFrame == InitFrame /\ [][NextFrame]_vars

\* Whether the Story object carries the attribute dxf_path; reading it on
\* an object without it raises AttributeError.
HasPlanPath(story) == "dxf_path" \in DOMAIN story

\* not story.dxf_path or not os.path.exists(story.dxf_path)
NoPlan(story) == story.dxf_path = "" \/ ~PathExists(story.dxf_path)

\* The columns of one layer of a story's plan, given the matching record
\* index k in the table (0: none).
LevelColumnsOfLayer(points, table, k, z_bottom, z_top, cfg) ==
    LET col(p) ==
            LET x_model == points[p][1] * cfg.length_to_model
                y_model == points[p][2] * cfg.length_to_model
            IN  [start_point |-> <<x_model, y_model, z_bottom>>,
                 end_point   |-> <<x_model, y_model, z_top>>,
                 prop_name   |-> table[k].name,
                 name        |-> ""]
    IN  IF k = 0 THEN <<>> ELSE [p \in DOMAIN points |-> col(p)]

extrude_level_columns(story, z_bottom, z_top, rects, circs, cfg) ==
    IF ~HasPlanPath(story) THEN "AttributeError"
    ELSE IF NoPlan(story) THEN <<>>
    ELSE LET doc == read_dxf_plan(story.dxf_path)[1]
         IN  LevelColumnsOfLayer(get_points_by_layer(doc, "REC COLS"), rects,
                                 LastIndexOf(rects, story.level), z_bottom, z_top, cfg)
             \o
             LevelColumnsOfLayer(get_points_by_layer(doc, "CIR COLS"), circs,
                                 LastIndexOf(circs, story.level), z_bottom, z_top, cfg)

\* A faulty panel: the vertices of the top edge in the order of the bottom
\* edge, a crossed quad.
LevelWallsOfLayer_Crossed(lines, wall_props, z_bottom, z_top, cfg) ==
    LET named == {k \in DOMAIN wall_props : wall_props[k].name # ""}
        first == CHOOSE k \in named : \A j \in named : k <= j
        wall(l) ==
            LET x1_model == lines[l][1][1] * cfg.length_to_model
                x2_model == lines[l][2][1] * cfg.length_to_model
                y1_model == lines[l][1][2] * cfg.length_to_model
                y2_model == lines[l][2][2] * cfg.length_to_model
            IN  [num_points |-> 4,
                 x_coord |-> <<x1_model, x2_model, x1_model, x2_model>>,
                 y_coord |-> <<y1_model, y2_model, y1_model, y2_model>>,
                 z_coord |-> <<z_bottom, z_bottom, z_top, z_top>>,
                 prop_name |-> wall_props[first].name,
                 name |-> ""]
    IN  IF named = {} THEN <<>> ELSE [l \in DOMAIN lines |-> wall(l)]

\* The walls of one layer of a story's plan: every line takes the first
\* record of the story's level that has a name.
LevelWallsOfLayer(lines, wall_props, z_bottom, z_top, cfg) ==
    LET named == {k \in DOMAIN wall_props : wall_props[k].name # ""}
        first == CHOOSE k \in named : \A j \in named : k <= j
        wall(l) ==
            LET x1_model == lines[l][1][1] * cfg.length_to_model
                x2_model == lines[l][2][1] * cfg.length_to_model
                y1_model == lines[l][1][2] * cfg.length_to_model
                y2_model == lines[l][2][2] * cfg.length_to_model
            IN  [num_points |-> 4,
                 x_coord |-> <<x1_model, x2_model, x2_model, x1_model>>,
                 y_coord |-> <<y1_model, y2_model, y2_model, y1_model>>,
                 z_coord |-> <<z_bottom, z_bottom, z_top, z_top>>,
                 prop_name |-> wall_props[first].name,
                 name |-> ""]
    IN  IF named = {} THEN <<>> ELSE [l \in DOMAIN lines |-> wall(l)]

extrude_level_walls(story, z_bottom, z_top, wls, cfg) ==
    IF ~HasPlanPath(story) THEN "AttributeError"
    ELSE IF NoPlan(story) THEN <<>>
    ELSE LET doc == read_dxf_plan(story.dxf_path)[1]
             wall_props == SelectSeq(wls, LAMBDA w : w.level = story.level)
         IN  IF wall_props = <<>> THEN <<>>
             ELSE LevelWallsOfLayer(get_lines_by_layer(doc, "WALL"), wall_props,
                                    z_bottom, z_top, cfg)
                  \o
                  LevelWallsOfLayer(get_lines_by_layer(doc, "WALL Y"), wall_props,
                                    z_bottom, z_top, cfg)

\* "X" in name.upper(), for the coupling-beam names of the model
NameHasX(name) == name \in {"CBX1", "cbx2"}

extrude_level_beams(story, z_level, beams, cfg) ==
    IF ~HasPlanPath(story) THEN "AttributeError"
    ELSE IF NoPlan(story) THEN <<>>
    ELSE LET doc == read_dxf_plan(story.dxf_path)[1]
             k == LastIndexOf(beams, story.level)
             lines == get_lines_by_layer(doc, "CB X")
             beam(l) ==
                 [start_point |-> <<lines[l][1][1] * cfg.length_to_model,
                                    lines[l][1][2] * cfg.length_to_model, z_level>>,
                  end_point   |-> <<lines[l][2][1] * cfg.length_to_model,
                                    lines[l][2][2] * cfg.length_to_model, z_level>>,
                  prop_name   |-> beams[k].name,
                  name        |-> ""]
         IN  IF k # 0 /\ NameHasX(beams[k].name)
             THEN [l \in DOMAIN lines |-> beam(l)]
             ELSE <<>>

extrude_level_slabs(story, z_level, slbs, cfg) ==
    IF ~HasPlanPath(story) THEN "AttributeError"
    ELSE IF NoPlan(story) THEN <<>>
    ELSE LET doc == read_dxf_plan(story.dxf_path)[1]
             k == FirstIndexOf(slbs, story.level)
             polylines == get_polylines_by_layer(doc, "SLAB")
             slab(p) ==
                 LET polyline == polylines[p]
                 IN  [num_points |-> Len(polyline),
                      x_coord |-> [v \in DOMAIN polyline |->
                                       polyline[v][1] * cfg.length_to_model],
                      y_coord |-> [v \in DOMAIN polyline |->
                                       polyline[v][2] * cfg.length_to_model],
                      z_coord |-> [v \in DOMAIN polyline |-> z_level],
                      prop_name |-> slbs[k].name,
                      name |-> <<"S", p, story.level>>,
                      sdl |-> slbs[k].sdl,
                      live |-> slbs[k].live]
         IN  IF k = 0 THEN <<>> ELSE [p \in DOMAIN polylines |-> slab(p)]

\* A faulty ceiling: the story's height above the base elevation, not above
\* the story's floor.
LevelTop_FromBase(sts, base, cfg, idx) ==
    convert_story_height(base + sts[idx].height, cfg)

\* The band of the idx-th story in model units (process_all_levels 366-368).
LevelBottom(sts, base, cfg, idx) ==
    convert_story_height(
        calculate_story_elevations_by_level(sts, base)[sts[idx].level], cfg)

LevelTop(sts, base, cfg, idx) ==
    convert_story_height(
        calculate_story_elevations_by_level(sts, base)[sts[idx].level]
            + sts[idx].height, cfg)

\* The stories at which the loop raises AttributeError: the print of
\* story.dxf_path at the head of the loop body finds no such attribute.
RaisingStories(sts) == {idx \in DOMAIN sts : ~HasPlanPath(sts[idx])}

\* The stories whose plan read ends the process: the plan exists and
\* read_dxf_plan does not return.
ExitingStories(sts) ==
    {idx \in DOMAIN sts :
        /\ HasPlanPath(sts[idx])
        /\ ~NoPlan(sts[idx])
        /\ Len(read_dxf_plan(sts[idx].dxf_path)) = 0}

\* How the loop over the stories ends: by the exception or the exit of the
\* first story that has one, or by running through.
LoopEnd(sts) ==
    LET stops == RaisingStories(sts) \cup ExitingStories(sts)
        first == CHOOSE idx \in stops : \A j \in stops : idx <= j
    IN  IF stops = {} THEN "return"
        ELSE IF first \in RaisingStories(sts) THEN "AttributeError"
        ELSE "SystemExit"

\* A faulty loop: the first story without a plan ends it (break), the
\* stories above being passed over.
process_all_levels_StopAtNoPlan(sts, base, rects, circs, wls, beams, slbs, cfg) ==
    IF LoopEnd(sts) # "return" THEN LoopEnd(sts) ELSE
    LET z_bottom(idx) == LevelBottom(sts, base, cfg, idx)
        z_top(idx) == LevelTop(sts, base, cfg, idx)
        reached == {idx \in DOMAIN sts : \A j \in 1..idx : ~NoPlan(sts[j])}
    IN  <<Flatten([idx \in DOMAIN sts |->
              IF idx \notin reached THEN <<>> ELSE
              extrude_level_columns(sts[idx], z_bottom(idx), z_top(idx), rects, circs, cfg)]),
          Flatten([idx \in DOMAIN sts |->
              IF idx \notin reached THEN <<>> ELSE
              extrude_level_walls(sts[idx], z_bottom(idx), z_top(idx), wls, cfg)]),
          Flatten([idx \in DOMAIN sts |->
              IF idx \notin reached THEN <<>> ELSE
              extrude_level_beams(sts[idx], z_top(idx), beams, cfg)]),
          Flatten([idx \in DOMAIN sts |->
              IF idx \notin reached THEN <<>> ELSE
              extrude_level_slabs(sts[idx], z_top(idx), slbs, cfg)])>>

\* process_all_levels: <<all_columns, all_walls, all_beams, all_slabs>>, or
\* the exception or exit that ends the loop.
process_all_levels(sts, base, rects, circs, wls, beams, slbs, cfg) ==
    IF LoopEnd(sts) # "return" THEN LoopEnd(sts) ELSE
    LET z_bottom(idx) == LevelBottom(sts, base, cfg, idx)
        z_top(idx) == LevelTop(sts, base, cfg, idx)
    IN  <<Flatten([idx \in DOMAIN sts |->
              extrude_level_columns(sts[idx], z_bottom(idx), z_top(idx), rects, circs, cfg)]),
          Flatten([idx \in DOMAIN sts |->
              extrude_level_walls(sts[idx], z_bottom(idx), z_top(idx), wls, cfg)]),
          Flatten([idx \in DOMAIN sts |->
              extrude_level_beams(sts[idx], z_top(idx), beams, cfg)]),
          Flatten([idx \in DOMAIN sts |->
              extrude_level_slabs(sts[idx], z_top(idx), slbs, cfg)])>>

(***************************************************************************)
(* The per-story run.                                                      *)
(***************************************************************************)
InitLevels ==
    /\ pc = "ready"
    /\ unit_config \in {US_UNITS, METRIC_UNITS}
    /\ stories \in PlanStoryLists
    /\ base_elevation \in BaseChoices
    /\ NoTables
    /\ NoPlanPrimitives
    /\ NoGeometry
    /\ NoFrame
    /\ NoCreation
    /\ NoLedger
    /\ NoDefinition
    /\ NoQuery

ProcessAllLevels ==
    /\ pc = "ready"
    /\ LoopEnd(stories) = "return"
    /\ \E wb \in LevelTables :
        \E out \in {process_all_levels(stories, base_elevation, wb.rect, wb.circ,
                                       wb.walls, wb.beams, wb.slabs, unit_config)} :
            /\ rect_columns' = wb.rect
            /\ circ_columns' = wb.circ
            /\ walls' = wb.walls
            /\ coupling_beams' = wb.beams
            /\ slabs' = wb.slabs
            /\ column_geometries' = out[1]
            /\ wall_geometries' = out[2]
            /\ beam_geometries' = out[3]
            /\ slab_geometries' = out[4]
    /\ pc' = "levels"
    /\ UNCHANGED <<frameVars, unit_config, stories, base_elevation, dxf_points, dxf_lines,
                   dxf_polylines, createVars, ledgerVars, defineVars, queryVars>>

\* process_all_levels left by sys.exit in read_dxf_plan: SystemExit passes
\* through the loop, the lists built so far are dropped with the frame.
ProcessAllLevelsExits ==
    /\ pc = "ready"
    /\ LoopEnd(stories) = "SystemExit"
    /\ \E wb \in LevelTables :
            /\ rect_columns' = wb.rect
            /\ circ_columns' = wb.circ
            /\ walls' = wb.walls
            /\ coupling_beams' = wb.beams
            /\ slabs' = wb.slabs
    /\ pc' = "exit"
    /\ UNCHANGED <<frameVars, unit_config, stories, base_elevation, dxf_points, dxf_lines,
                   dxf_polylines, column_geometries, wall_geometries,
                   beam_geometries, slab_geometries, createVars, ledgerVars,
                   defineVars, queryVars>>

\* process_all_levels left by the AttributeError of a story without
\* dxf_path: the exception passes through the loop, the lists built so far
\* are dropped with the frame.
ProcessAllLevelsRaises ==
    /\ pc = "ready"
    /\ LoopEnd(stories) = "AttributeError"
    /\ \E wb \in LevelTables :
            /\ rect_columns' = wb.rect
            /\ circ_columns' = wb.circ
            /\ walls' = wb.walls
            /\ coupling_beams' = wb.beams
            /\ slabs' = wb.slabs
    /\ pc' = "error"
    /\ UNCHANGED <<frameVars, unit_config, stories, base_elevation, dxf_points, dxf_lines,
                   dxf_polylines, column_geometries, wall_geometries,
                   beam_geometries, slab_geometries, createVars, ledgerVars,
                   defineVars, queryVars>>

NextLevels ==
    \/ ProcessAllLevels
    \/ ProcessAllLevelsExits
    \/ ProcessAllLevelsRaises

SpecLevels == InitLevels /\ [][NextLevels]_vars

\* The wall extrusion of a story list by either extruder: the per-story run,
\* or the shared-plan wall extruder on the same stories.
InitWalls ==
    /\ InitLevels
    /\ \A i \in DOMAIN stories :
          HasPlanPath(stories[i]) /\ stories[i].dxf_path \in {""} \cup DOMAIN PlanFiles

NextWalls ==
    \/ ProcessAllLevels
    \/ ExtrudeLinesToWalls

SpecWalls == InitWalls /\ [][NextWalls]_vars

(***************************************************************************)
(* utils/excel_processing.py: the Story sheet                              *)
(***************************************************************************)
\* Story heights of the reconciler run, in ticks of 1e-7: 1e-6, 1.1e-6,
\* 1.4e-6 and 10 input units.
HeightTicks == {10, 11, 14, 10^8}

\* A sheet row whose level cell is empty.
BlankRow == [level |-> "", height |-> 0]

\* The rows of a Story sheet, first row the top story: the labels either run
\* down to L1 at the bottom row or up from L1 at the top row, and a blank
\* row may follow the first row.
SheetRowLists ==
    UNION {{LET rows == [i \in 1..n |->
                           [level |-> LevelNames[IF down THEN n + 1 - i ELSE i],
                            height |-> h[i]]]
            IN  IF ~blank THEN rows
                ELSE IF rows = <<>> THEN <<BlankRow>>
                ELSE <<Head(rows), BlankRow>> \o Tail(rows) :
              h \in [1..n -> HeightTicks], down \in BOOLEAN, blank \in BOOLEAN} :
           n \in 0..MaxStories}

\* read_story_table: the rows with a level, reversed; the closing print reads
\* stories[0] and raises IndexError on an empty list.
read_story_table(rows) ==
    LET kept == SelectSeq(rows, LAMBDA row : row.level # "")
    IN  IF kept = <<>> THEN "IndexError" ELSE Reverse(kept)

\* read_slab_table: a row with a key builds Slab(level=, material=, fc=,
\* name=, thickness=, sdl=, live=), and the record class has neither fc nor
\* thickness, so the first such row raises TypeError; a sheet without one
\* gives the empty list.
read_slab_table(rows) ==
    IF \E i \in DOMAIN rows : rows[i].level # "" THEN "TypeError" ELSE <<>>

\* read_coupling_beam_table: a row with a key builds CouplingBeam(level=,
\* material=, fc=, name_x=, b_x=, h_x=, name_y=, b_y=, h_y=), and the record
\* class has none of these but level and material, so the first such row
\* raises TypeError; a sheet without one gives the empty list.
read_coupling_beam_table(rows) ==
    IF \E i \in DOMAIN rows : rows[i].level # "" THEN "TypeError" ELSE <<>>

(***************************************************************************)
(* utils/build_etabs_data.py                                               *)
(***************************************************************************)
\* EPS = 1e-3, in ticks
EPS == 10000

\* A faulty key: rounded to 3 decimals (round(x, 3)).
_round_key_Coarse(x) == {((x + 5000) \div 10000) * 10000}

\* _round_key: round(float(x), 6), as the set of keys it can return for a
\* double of x ticks: the nearest multiple of 10 ticks, and either
\* neighbour when x lies midway between two multiples (the double is never
\* on the tie itself, it lies to one side of it or to the other).
_round_key(x) ==
    LET q == x \div 10
        r == x % 10
    IN  IF r < 5 THEN {10 * q}
        ELSE IF r > 5 THEN {10 * (q + 1)}
        ELSE {10 * q, 10 * (q + 1)}

\* A dict is the sequence of its <<key, value>> items in insertion order.
DictHas(d, k) == \E i \in DOMAIN d : d[i][1] = k

DictGet(d, k) == d[CHOOSE i \in DOMAIN d : d[i][1] = k][2]

\* d[k] = v: an existing key keeps its place.
DictSet(d, k, v) ==
    IF DictHas(d, k)
    THEN [i \in DOMAIN d |-> IF d[i][1] = k THEN <<k, v>> ELSE d[i]]
    ELSE Append(d, <<k, v>>)

\* The loop of build_story_mappings over the list it takes for bottom-up:
\* the pairs <<base_map, top_map>> it can end with.
RECURSIVE StoryLedgerFrom(_, _, _, _)
StoryLedgerFrom(bottom_up, z, bmap, tmap) ==
    IF bottom_up = <<>> THEN {<<bmap, tmap>>}
    ELSE LET s == Head(bottom_up)
             z_next == z + s.height
         IN  UNION {StoryLedgerFrom(Tail(bottom_up), z_next,
                                    DictSet(bmap, kb, s.level),
                                    DictSet(tmap, kt, s.level)) :
                       kb \in _round_key(z), kt \in _round_key(z_next)}

\* <<heights, base_map, top_map>>
StoryLedger(bottom_up) ==
    {<<[i \in DOMAIN bottom_up |-> bottom_up[i].height], maps[1], maps[2]>> :
        maps \in StoryLedgerFrom(bottom_up, 0, <<>>, <<>>)}

\* build_story_mappings: the argument is taken for top-down and reversed.
build_story_mappings(sts) == StoryLedger(Reverse(sts))

Abs(x) == IF x < 0 THEN -x ELSE x

\* min(d.keys(), key=lambda k: abs(k - z_value)): a key at the least
\* distance. Of several keys at the same distance in ticks the doubles
\* decide (the first in insertion order when the distances are equal as
\* doubles), so each of them can come back.
NearestKeys(d, z_value) ==
    {d[i][1] : i \in {i \in DOMAIN d :
                        \A j \in DOMAIN d :
                           Abs(d[i][1] - z_value) <= Abs(d[j][1] - z_value)}}

\* abs(nearest - z_value) <= EPS: the outcomes of the test. At a distance
\* of EPS in ticks the difference of the doubles falls on either side of
\* the double 1e-3.
WithinEPS(nearest, z_value) ==
    IF Abs(nearest - z_value) < EPS THEN {TRUE}
    ELSE IF Abs(nearest - z_value) > EPS THEN {FALSE}
    ELSE BOOLEAN

\* A faulty lookup: the nearest key is taken at any distance.
FindLevel_AnyDistance(map, z_value) ==
    UNION {IF DictHas(map, z_key) THEN {DictGet(map, z_key)}
           ELSE {DictGet(map, nearest) : nearest \in NearestKeys(map, z_value)} :
              z_key \in _round_key(z_value)}

\* find_level_by_base_elev and find_level_by_top_elev share one body: the
\* results the lookup can return, "None" standing for None. In an empty map
\* no key is found and min() of no keys raises ValueError.
FindLevel(map, z_value) ==
    IF map = <<>> THEN {"ValueError"} ELSE
    UNION {IF DictHas(map, z_key) THEN {DictGet(map, z_key)}
           ELSE UNION {{IF within THEN DictGet(map, nearest) ELSE "None" :
                           within \in WithinEPS(nearest, z_value)} :
                          nearest \in NearestKeys(map, z_value)} :
              z_key \in _round_key(z_value)}

find_level_by_base_elev(bmap, z_value) == FindLevel(bmap, z_value)

find_level_by_top_elev(tmap, z_value) == FindLevel(tmap, z_value)

\* "if l:" of a lookup result: neither None nor the empty label.
Truthy(l) == l # "None" /\ l # ""

\* A faulty resolution: the ceiling map is asked before the floor map.
nearest_level_for_z_CeilingFirst(bmap, tmap, z_value) ==
    UNION {IF Truthy(lt) THEN {lt}
           ELSE UNION {IF Truthy(lb) THEN {lb}
                       ELSE {DictGet(bmap, k) : k \in NearestKeys(bmap, z_value)} :
                          lb \in find_level_by_base_elev(bmap, z_value)} :
              lt \in find_level_by_top_elev(tmap, z_value)}

\* nearest_level_for_z: the floor map, then the ceiling map, then the label
\* of the nearest floor key; the labels it can return.
nearest_level_for_z(bmap, tmap, z_value) ==
    UNION {IF Truthy(lb) THEN {lb}
           ELSE UNION {IF Truthy(lt) THEN {lt}
                       ELSE {DictGet(bmap, k) : k \in NearestKeys(bmap, z_value)} :
                          lt \in find_level_by_top_elev(tmap, z_value)} :
              lb \in find_level_by_base_elev(bmap, z_value)}

\* prop_by_level.get(level_name): <<record>>, or <<>> for None.
PropByLevel(table, level) ==
    IF LastIndexOf(table, level) # 0 THEN <<table[LastIndexOf(table, level)]>> ELSE <<>>

\* The lists made of one list out of each set of a sequence of sets of
\* lists, joined in order.
RECURSIVE ConcatChoices(_)
ConcatChoices(sets) ==
    IF sets = <<>> THEN {<<>>}
    ELSE {h \o t : h \in Head(sets), t \in ConcatChoices(Tail(sets))}

\* How a merge ends when one of its segments raises, the segments taken in
\* loop order: IndexError at an empty one (pts[0], quad_pts[0] and
\* poly_pts[0] of an empty list), ValueError at the lookup of one in an
\* empty map; "None" when no segment raises.
MergeRaise(segments, map) ==
    LET raising == {i \in DOMAIN segments : segments[i] = <<>> \/ map = <<>>}
        first == CHOOSE i \in raising : \A j \in raising : i <= j
    IN  IF raising = {} THEN "None"
        ELSE IF segments[first] = <<>> THEN "IndexError"
        ELSE "ValueError"

\* The outcome of a merge that raised, and of one that returned the list
\* merged.
MergeRaised(exception) == [raised |-> exception, merged |-> <<>>]

MergeReturned(merged) == [raised |-> "None", merged |-> merged]

Raised(outcome) == outcome.raised # "None"

\* A faulty merge: the segment is looked up by its top elevation.
RECURSIVE MergeStack_LabelByTop(_, _, _, _, _, _)
MergeStack_LabelByTop(pts, x, y, prev_z, bmap, excel_columns) ==
    IF pts = <<>> THEN {<<>>}
    ELSE LET top_pt == Head(pts)
         IN  {<<[level |-> level_name,
                 prop |-> PropByLevel(excel_columns, level_name),
                 geom |-> <<(<<x, y, prev_z>>), top_pt>>]>> \o rest :
                level_name \in find_level_by_base_elev(bmap, top_pt[3]),
                rest \in MergeStack_LabelByTop(Tail(pts), x, y, top_pt[3], bmap,
                                               excel_columns)}

\* The segments of one stack, bottom-up, prev_z being the bottom of the
\* first: the lists of records the loop can build.
RECURSIVE MergeStack(_, _, _, _, _, _)
MergeStack(pts, x, y, prev_z, bmap, excel_columns) ==
    IF pts = <<>> THEN {<<>>}
    ELSE LET top_pt == Head(pts)
         IN  {<<[level |-> level_name,
                 prop |-> PropByLevel(excel_columns, level_name),
                 geom |-> <<(<<x, y, prev_z>>), top_pt>>]>> \o rest :
                level_name \in find_level_by_base_elev(bmap, prev_z),
                rest \in MergeStack(Tail(pts), x, y, top_pt[3], bmap, excel_columns)}

\* merge_columns: the outcomes of the merge, each the list of records
\* returned or the exception raised. x, y, _ = pts[0] raises IndexError at
\* an empty stack, and nothing is returned for any stack.
merge_columns(geo, bmap, excel_columns) ==
    IF MergeRaise(geo, bmap) # "None" THEN {MergeRaised(MergeRaise(geo, bmap))}
    ELSE {MergeReturned(merged) : merged \in ConcatChoices([k \in DOMAIN geo |->
             MergeStack(geo[k], geo[k][1][1], geo[k][1][2], 0, bmap, excel_columns)])}

\* props_by_level.get(level_name, []) and its first element: <<record>>, or
\* <<>> for None.
FirstPropOfLevel(table, level) ==
    IF FirstIndexOf(table, level) # 0 THEN <<table[FirstIndexOf(table, level)]>> ELSE <<>>

\* A faulty merge: a quad is labelled by the z of its top edge.
merge_walls_LabelByTop(geo, bmap, excel_walls) ==
    IF MergeRaise(Flatten(geo), bmap) # "None" THEN {MergeRaised(MergeRaise(Flatten(geo), bmap))}
    ELSE {MergeReturned(merged) : merged \in ConcatChoices([k \in DOMAIN geo |->
        ConcatChoices([q \in DOMAIN geo[k] |->
            {<<[level |-> level_name,
                prop |-> FirstPropOfLevel(excel_walls, level_name),
                geom |-> geo[k][q]]>> :
               level_name \in find_level_by_base_elev(bmap, geo[k][q][3][3])}])])}

\* A faulty merge: a quad without a property record is left out.
merge_walls_SkipUnmatched(geo, bmap, excel_walls) ==
    IF MergeRaise(Flatten(geo), bmap) # "None" THEN {MergeRaised(MergeRaise(Flatten(geo), bmap))}
    ELSE {MergeReturned(merged) : merged \in ConcatChoices([k \in DOMAIN geo |->
        ConcatChoices([q \in DOMAIN geo[k] |->
            {IF FirstIndexOf(excel_walls, level_name) = 0 THEN <<>>
             ELSE <<[level |-> level_name,
                     prop |-> FirstPropOfLevel(excel_walls, level_name),
                     geom |-> geo[k][q]]>> :
               level_name \in find_level_by_base_elev(bmap, geo[k][q][1][3])}])])}

\* merge_walls: one record per quad, labelled by the z of its first vertex
\* against the base map, with the first record of that level; the
\* outcomes, as for merge_columns.
merge_walls(geo, bmap, excel_walls) ==
    IF MergeRaise(Flatten(geo), bmap) # "None" THEN {MergeRaised(MergeRaise(Flatten(geo), bmap))}
    ELSE {MergeReturned(merged) : merged \in ConcatChoices([k \in DOMAIN geo |->
        ConcatChoices([q \in DOMAIN geo[k] |->
            {<<[level |-> level_name,
                prop |-> FirstPropOfLevel(excel_walls, level_name),
                geom |-> geo[k][q]]>> :
               level_name \in find_level_by_base_elev(bmap, geo[k][q][1][3])}])])}

\* merge_slabs: one record per polygon, labelled by the z of its first
\* vertex against the top map, with the last record of that level; the
\* outcomes, as for merge_columns.
merge_slabs(geo, tmap, excel_slabs) ==
    IF MergeRaise(Flatten(geo), tmap) # "None" THEN {MergeRaised(MergeRaise(Flatten(geo), tmap))}
    ELSE {MergeReturned(merged) : merged \in ConcatChoices([k \in DOMAIN geo |->
        ConcatChoices([q \in DOMAIN geo[k] |->
            {<<[level |-> level_name,
                prop |-> PropByLevel(excel_slabs, level_name),
                geom |-> geo[k][q]]>> :
               level_name \in find_level_by_top_elev(tmap, geo[k][q][1][3])}])])}

\* A columns_geo stack as merge_columns takes it: the top points
\* (x, y, cumulative top) of one plan point, in bottom-up story order.
ColumnStack(p, story_heights) ==
    [i \in DOMAIN story_heights |->
        <<p[1], p[2], SumSeq(SubSeq(story_heights, 1, i))>>]

\* A walls_geo list as merge_walls takes it: the quads of one plan line, one
\* per story: start-bottom, end-bottom, end-top, start-top.
WallQuads(ln, story_heights) ==
    [i \in DOMAIN story_heights |->
        LET z_bot == SumSeq(SubSeq(story_heights, 1, i - 1))
            z_top == SumSeq(SubSeq(story_heights, 1, i))
        IN  <<(<<ln[1][1], ln[1][2], z_bot>>), (<<ln[2][1], ln[2][2], z_bot>>),
              (<<ln[2][1], ln[2][2], z_top>>), (<<ln[1][1], ln[1][2], z_top>>)>>]

\* A slabs_geo list as merge_slabs takes it: the polygons of one plan
\* polygon, one per story at the top elevation of the story.
SlabPolygons(poly, story_heights) ==
    [i \in DOMAIN story_heights |->
        [v \in DOMAIN poly |->
            <<poly[v][1], poly[v][2], SumSeq(SubSeq(story_heights, 1, i))>>]]

\* Floating noise of the stack tops, in ticks: up to 1e-7 either way.
Noise == {-1, 0, 1}

\* The column tables the reconciler is given: at most one record.
ExcelColumnChoices ==
    {<<>>} \cup {<<[level |-> l, name |-> RectNames[1]]>> : l \in RecordLevels}

\* The excel_walls argument of merge_walls: empty, or the X-named and the
\* Y-named record of the level of the column record.
ExcelWallsFor(excel_columns, full) ==
    IF ~full \/ excel_columns = <<>> THEN <<>>
    ELSE <<[level |-> excel_columns[1].level, name |-> WallNamesX[1]],
           [level |-> excel_columns[1].level, name |-> WallNamesY[1]]>>

\* The excel_slabs argument of merge_slabs: empty, or one record of that
\* level.
ExcelSlabsFor(excel_columns, full) ==
    IF ~full \/ excel_columns = <<>> THEN <<>>
    ELSE <<[level |-> excel_columns[1].level, name |-> SlabNames[1],
            sdl |-> SlabSdl[1], live |-> SlabLive[1]]>>

\* Story heights of a geometry that was not extruded through the frame:
\* its second story stands 5 input units above the base, where a frame of
\* the model has no floor within the tolerance.
OffFrameHeights == <<5 * 10^7, 5 * 10^7>>

\* columns_geo[0], walls_geo[0] and slabs_geo[0] for one plan point, line
\* and polygon extruded through story_heights, the column tops below the
\* roof carrying the floating noise.
ExtrudedGeometry(story_heights, noise) ==
    [stack |-> [i \in DOMAIN story_heights |->
                   <<PlanPoint(1)[1], PlanPoint(1)[2],
                     ColumnStack(PlanPoint(1), story_heights)[i][3]
                         + (IF i < Len(story_heights) THEN noise ELSE 0)>>],
     quads |-> WallQuads(PlanLine(1), story_heights),
     polys |-> SlabPolygons(PlanPoly(1), story_heights)]

\* The geometry handed to the merges with empty tables: extruded through
\* the frame's heights list with noisy column tops; extruded through no
\* story, every list empty; and the frame's geometry with a quad, or a
\* polygon, that holds no vertex.
BareGeometryChoices(story_heights) ==
    {ExtrudedGeometry(story_heights, noise) : noise \in Noise \ {0}}
    \cup {ExtrudedGeometry(<<>>, 0),
          [ExtrudedGeometry(story_heights, 0) EXCEPT !.quads = <<(<<>>)>>],
          [ExtrudedGeometry(story_heights, 0) EXCEPT !.polys = <<(<<>>)>>]}

\* The arguments of one application of the three merges, the geometry and
\* the three tables: geometry extruded through other heights than the
\* frame's with each column table, the wall and slab tables filled or
\* empty; geometry extruded through the frame's heights list with the
\* three tables filled or the three empty; and the bare geometries.
MergeInputs ==
    {[stack |-> g.stack, quads |-> g.quads, polys |-> g.polys,
      excel_columns |-> excel_columns,
      excel_walls |-> ExcelWallsFor(excel_columns, full),
      excel_slabs |-> ExcelSlabsFor(excel_columns, full)] :
        g \in {ExtrudedGeometry(OffFrameHeights, 0)},
        excel_columns \in ExcelColumnChoices,
        full \in BOOLEAN}
    \cup {[stack |-> g.stack, quads |-> g.quads, polys |-> g.polys,
           excel_columns |-> excel_columns,
           excel_walls |-> ExcelWallsFor(excel_columns, TRUE),
           excel_slabs |-> ExcelSlabsFor(excel_columns, TRUE)] :
             g \in {ExtrudedGeometry(heights_list, 0)},
             excel_columns \in ExcelColumnChoices}
    \cup {[stack |-> g.stack, quads |-> g.quads, polys |-> g.polys,
           excel_columns |-> <<>>, excel_walls |-> <<>>, excel_slabs |-> <<>>] :
             g \in BareGeometryChoices(heights_list)}

(***************************************************************************)
(* The reconciler functions applied one after the other: read_story_table  *)
(* on a Story sheet, build_story_mappings on its stories, and the three    *)
(* merges on geometry stacked through the heights list.  Each function is  *)
(* applied on its own; loading utils.build_etabs_data itself is the        *)
(* action ImportBuildEtabsData.                                            *)
(***************************************************************************)
InitLedger ==
    /\ pc = "sheet"
    /\ unit_config = NoneConfig
    /\ stories = <<>>
    /\ base_elevation = 0
    /\ NoTables
    /\ NoPlanPrimitives
    /\ NoGeometry
    /\ NoFrame
    /\ NoCreation
    /\ sheet_rows \in SheetRowLists
    /\ heights_list = <<>>
    /\ base_map = <<>>
    /\ top_map = <<>>
    /\ columns_geo = <<>>
    /\ merged_columns = <<>>
    /\ walls_geo = <<>>
    /\ slabs_geo = <<>>
    /\ merged_walls = <<>>
    /\ merged_slabs = <<>>
    /\ NoDefinition
    /\ NoQuery

ReadStoryTable ==
    /\ pc = "sheet"
    /\ read_story_table(sheet_rows) # "IndexError"
    /\ stories' = read_story_table(sheet_rows)
    /\ pc' = "stories"
    /\ UNCHANGED <<frameVars, unit_config, base_elevation, rect_columns, circ_columns, walls,
                   coupling_beams, slabs, dxf_points, dxf_lines, dxf_polylines,
                   column_geometries, wall_geometries, beam_geometries,
                   slab_geometries, createVars, ledgerVars, defineVars, queryVars>>

ReadStoryTableFails ==
    /\ pc = "sheet"
    /\ read_story_table(sheet_rows) = "IndexError"
    /\ pc' = "error"
    /\ UNCHANGED <<frameVars, unit_config, stories, base_elevation, rect_columns, circ_columns,
                   walls, coupling_beams, slabs, dxf_points, dxf_lines,
                   dxf_polylines, column_geometries, wall_geometries,
                   beam_geometries, slab_geometries, createVars, ledgerVars, defineVars, queryVars>>

\* read_slab_table and read_coupling_beam_table applied to a sheet whose
\* key column is that of the rows: both return the empty list when no row
\* has a key, and the first applied raises otherwise.
ReadSlabAndBeamTables ==
    /\ pc = "sheet"
    /\ \E out \in {<<read_slab_table(sheet_rows),
                      read_coupling_beam_table(sheet_rows)>>} :
        IF out[1] = "TypeError" \/ out[2] = "TypeError"
        THEN pc' = "error" /\ UNCHANGED <<frameVars, slabs, coupling_beams>>
        ELSE pc' = "tables" /\ slabs' = out[1] /\ coupling_beams' = out[2]
    /\ UNCHANGED <<frameVars, unit_config, stories, base_elevation, rect_columns, circ_columns,
                   walls, dxf_points, dxf_lines,
                   dxf_polylines, column_geometries, wall_geometries,
                   beam_geometries, slab_geometries, createVars, ledgerVars,
                   defineVars, queryVars>>

BuildStoryMappings ==
    /\ pc = "stories"
    /\ \E out \in build_story_mappings(stories) :
        /\ heights_list' = out[1]
        /\ base_map' = out[2]
        /\ top_map' = out[3]
    /\ pc' = "mapped"
    /\ UNCHANGED <<frameVars, unit_config, stories, base_elevation, rect_columns, circ_columns,
                   walls, coupling_beams, slabs, dxf_points, dxf_lines,
                   dxf_polylines, column_geometries, wall_geometries,
                   beam_geometries, slab_geometries, createVars, sheet_rows,
                   columns_geo, merged_columns, walls_geo, slabs_geo,
                   merged_walls, merged_slabs, defineVars, queryVars>>

\* The outcomes <<columns, walls, slabs>> of the three merges
\* applied in the order of build_etabs_model_data (250-252), none of them
\* raising.
MergeOutcomes(in) ==
    {<<mc, mw, ms>> :
        mc \in {o \in merge_columns(<<in.stack>>, base_map, in.excel_columns) : ~Raised(o)},
        mw \in {o \in merge_walls(<<in.quads>>, base_map, in.excel_walls) : ~Raised(o)},
        ms \in {o \in merge_slabs(<<in.polys>>, top_map, in.excel_slabs) : ~Raised(o)}}

\* The exception the three merges end with, the first that raises ending
\* the application: the empty set when each of them returns.
MergeExceptions(in) ==
    LET mc == MergeRaise(<<in.stack>>, base_map)
        mw == MergeRaise(Flatten(<<in.quads>>), base_map)
        ms == MergeRaise(Flatten(<<in.polys>>), top_map)
    IN  {IF mc # "None" THEN mc ELSE IF mw # "None" THEN mw ELSE ms} \ {"None"}

\* merge_columns, merge_walls and merge_slabs applied and returning.
MergeColumns ==
    /\ pc = "mapped"
    /\ \E in \in MergeInputs :
        /\ MergeExceptions(in) = {}
        /\ \E out \in MergeOutcomes(in) :
            /\ merged_columns' = out[1].merged
            /\ merged_walls' = out[2].merged
            /\ merged_slabs' = out[3].merged
        /\ dxf_points' = <<PlanPoint(1)>>
        /\ dxf_lines' = <<PlanLine(1)>>
        /\ dxf_polylines' = <<PlanPoly(1)>>
        /\ rect_columns' = in.excel_columns
        /\ walls' = in.excel_walls
        /\ slabs' = in.excel_slabs
        /\ columns_geo' = <<in.stack>>
        /\ walls_geo' = <<in.quads>>
        /\ slabs_geo' = <<in.polys>>
    /\ pc' = "merged"
    /\ UNCHANGED <<frameVars, unit_config, stories, base_elevation, circ_columns,
                   coupling_beams, column_geometries, wall_geometries,
                   beam_geometries, slab_geometries, createVars, sheet_rows,
                   heights_list, base_map, top_map, defineVars, queryVars>>

\* The merges applied and one of them raising: build_etabs_model_data
\* returns nothing, and its locals merged_columns and merged_walls hold what
\* the merges before the raising one returned (250-252).
MergeColumnsRaises ==
    /\ pc = "mapped"
    /\ \E in \in MergeInputs :
        /\ MergeExceptions(in) # {}
        /\ \E mc \in merge_columns(<<in.stack>>, base_map, in.excel_columns) :
            /\ merged_columns' = mc.merged
            /\ IF Raised(mc) THEN merged_walls' = <<>>
               ELSE \E mw \in merge_walls(<<in.quads>>, base_map, in.excel_walls) :
                        merged_walls' = mw.merged
        /\ dxf_points' = <<PlanPoint(1)>>
        /\ dxf_lines' = <<PlanLine(1)>>
        /\ dxf_polylines' = <<PlanPoly(1)>>
        /\ rect_columns' = in.excel_columns
        /\ walls' = in.excel_walls
        /\ slabs' = in.excel_slabs
        /\ columns_geo' = <<in.stack>>
        /\ walls_geo' = <<in.quads>>
        /\ slabs_geo' = <<in.polys>>
    /\ pc' = "merge raised"
    /\ UNCHANGED <<frameVars, unit_config, stories, base_elevation, circ_columns,
                   coupling_beams, column_geometries, wall_geometries,
                   beam_geometries, slab_geometries, createVars, sheet_rows,
                   heights_list, base_map, top_map, merged_slabs, defineVars,
                   queryVars>>

NextLedger ==
    \/ ReadStoryTable
    \/ ReadStoryTableFails
    \/ ReadSlabAndBeamTables
    \/ BuildStoryMappings
    \/ MergeColumns
    \/ MergeColumnsRaises

SpecLedger == InitLedger /\ [][NextLedger]_vars

(***************************************************************************)
(* modeling/model_slabs.py                                                 *)
(***************************************************************************)
\* The name the modelling program assigns to the idx-th area object.
EtabsName(idx) == <<"F", idx>>

\* One boundary call of the log.
AddByCoordCall(idx, slab_geom, ret) ==
    [api |-> "AreaObj.AddByCoord", geom |-> idx, name |-> slab_geom.name,
     pattern |-> slab_geom.prop_name, value |-> Frac(0, 1), ret |-> ret]

\* ret is <<status>> for a call that returned and <<>> for one that raised.
SetLoadUniformCall(idx, pattern, value, ret) ==
    [api |-> "AreaObj.SetLoadUniform", geom |-> idx, name |-> EtabsName(idx),
     pattern |-> pattern, value |-> value, ret |-> ret]

\* <<sdl_converted, live_converted>> (model_slabs.py 47-54)
ConvertedLoads(slab_geom, cfg) ==
    IF cfg # NoneConfig
    THEN <<convert_load(slab_geom.sdl, cfg, TRUE), convert_load(slab_geom.live, cfg, TRUE)>>
    ELSE <<Frac(slab_geom.sdl, 144), Frac(slab_geom.live, 144)>>

\* The load assignments of one slab when each returns, live before
\* super-dead, each only for a positive value (model_slabs.py 56-76).
LoadCalls(idx, slab_geom, cfg, sdl_name, liveload_name) ==
    (IF slab_geom.live > 0
     THEN <<SetLoadUniformCall(idx, liveload_name,
                               ConvertedLoads(slab_geom, cfg)[2], <<0>>)>>
     ELSE <<>>)
    \o
    (IF slab_geom.sdl > 0
     THEN <<SetLoadUniformCall(idx, sdl_name,
                               ConvertedLoads(slab_geom, cfg)[1], <<0>>)>>
     ELSE <<>>)

\* The load assignments of one slab when the k-th of them raises: the ones
\* before it returned, the ones after it are not issued.
LoadCallsRaisingAt(idx, slab_geom, cfg, sdl_name, liveload_name, k) ==
    LET calls == LoadCalls(idx, slab_geom, cfg, sdl_name, liveload_name)
    IN  SubSeq(calls, 1, k - 1) \o <<[calls[k] EXCEPT !.ret = <<>>]>>

\* The statuses AddByCoord may return.
AddStatus == {0, 1}

\* One item of the tuple a boundary call returns: an array, a name or a
\* status.
ReturnedItem(kind, value) == [kind |-> kind, value |-> value]

\* item != 0 as the create loops test it: an array and a name never equal
\* 0, a status does when it is 0.
NotZero(item) == item.kind # "status" \/ item.value # 0

\* What AreaObj.AddByCoord returns: the three coordinate arrays it was
\* given, the name the modelling program assigned, and the status; the
\* name is returned[-2] and the status returned[-1] (model_slabs.py 36-37).
AreaAddByCoordReturn(idx, geom, status) ==
    <<ReturnedItem("array", geom.x_coord), ReturnedItem("array", geom.y_coord),
      ReturnedItem("array", geom.z_coord), ReturnedItem("name", EtabsName(idx)),
      ReturnedItem("status", status)>>

\* What FrameObj.AddByCoord returns: the assigned name and the status.
FrameAddByCoordReturn(idx, status) ==
    <<ReturnedItem("name", EtabsName(idx)), ReturnedItem("status", status)>>

\* ret of a create loop: what the function it calls returns.
AddByCoordReturn(api, idx, geom, status) ==
    IF api = "AreaObj.AddByCoord" THEN AreaAddByCoordReturn(idx, geom, status)
    ELSE FrameAddByCoordReturn(idx, status)

(***************************************************************************)
(* The slab run: a shared plan's slabs are extruded, then created one by   *)
(* one at the boundary of the modelling program.                           *)
(***************************************************************************)
BatchStoryLists ==
    {[i \in 1..n |-> [level |-> LevelNames[i], height |-> 10]] : n \in 1..MaxBatchStories}

InitCreate ==
    /\ pc = "ready"
    /\ unit_config \in {NoneConfig, US_UNITS, METRIC_UNITS}
    /\ stories \in BatchStoryLists
    /\ base_elevation = 0
    /\ NoTables
    /\ NoPlanPrimitives
    /\ NoGeometry
    /\ NoFrame
    /\ NoCreation
    /\ NoLedger
    /\ NoDefinition
    /\ NoQuery

\* One turn of the loop of create_slabs_in_etabs in which every boundary
\* call returns.
CreateSlab ==
    /\ pc = "slabs"
    /\ Len(slab_geometries) <= MaxBatch
    /\ geom_idx < Len(slab_geometries)
    /\ \E ret \in AddStatus :
        LET idx == geom_idx + 1
            slab_geom == slab_geometries[idx]
            returned == AreaAddByCoordReturn(idx, slab_geom, ret)
        IN  /\ created_count' = IF NotZero(returned[Len(returned)])
                                 THEN created_count ELSE created_count + 1
            /\ etabs_calls' = etabs_calls
                                \o <<AddByCoordCall(idx, slab_geom, <<ret>>)>>
                                \o LoadCalls(idx, slab_geom, unit_config, "Dead", "Live")
            /\ geom_idx' = idx
    /\ UNCHANGED <<frameVars, pc, unit_config, stories, base_elevation, rect_columns,
                   circ_columns, walls, coupling_beams, slabs, dxf_points, dxf_lines,
                   dxf_polylines, column_geometries, wall_geometries,
                   beam_geometries, slab_geometries, ledgerVars, defineVars, queryVars>>

\* One turn of the loop in which a boundary call of the try block raises,
\* the handler prints and the loop goes on: AddByCoord raises (k = 0) and
\* nothing else is issued, or AddByCoord returns, its status is counted,
\* and the k-th load assignment raises, the later one being skipped.
CreateSlabRaises ==
    /\ pc = "slabs"
    /\ Len(slab_geometries) <= MaxBatch
    /\ geom_idx < Len(slab_geometries)
    /\ LET idx == geom_idx + 1
           slab_geom == slab_geometries[idx]
           loads == LoadCalls(idx, slab_geom, unit_config, "Dead", "Live")
       IN  \E k \in 0..Len(loads), ret \in AddStatus :
            /\ k = 0 => ret = 0
            /\ created_count' = IF k > 0 /\ ret = 0 THEN created_count + 1
                                 ELSE created_count
            /\ etabs_calls' =
                   IF k = 0
                   THEN etabs_calls \o <<AddByCoordCall(idx, slab_geom, <<>>)>>
                   ELSE etabs_calls
                          \o <<AddByCoordCall(idx, slab_geom, <<ret>>)>>
                          \o LoadCallsRaisingAt(idx, slab_geom, unit_config,
                                                "Dead", "Live", k)
            /\ geom_idx' = idx
    /\ UNCHANGED <<frameVars, pc, unit_config, stories, base_elevation, rect_columns,
                   circ_columns, walls, coupling_beams, slabs, dxf_points, dxf_lines,
                   dxf_polylines, column_geometries, wall_geometries,
                   beam_geometries, slab_geometries, ledgerVars, defineVars, queryVars>>

\* The loop is over: the count is printed.
FinishCreateSlabs ==
    /\ pc = "slabs"
    /\ Len(slab_geometries) <= MaxBatch
    /\ geom_idx = Len(slab_geometries)
    /\ pc' = "created"
    /\ UNCHANGED <<frameVars, unit_config, stories, base_elevation, rect_columns,
                   circ_columns, walls, coupling_beams, slabs, dxf_points, dxf_lines,
                   dxf_polylines, column_geometries, wall_geometries,
                   beam_geometries, slab_geometries, createVars, ledgerVars, defineVars, queryVars>>

(***************************************************************************)
(* modeling/model_columns.py, model_walls.py, model_beams.py               *)
(***************************************************************************)
\* One create call of the log: the column and beam loops call
\* FrameObj.AddByCoord, the wall loop AreaObj.AddByCoord. ret is <<status>>
\* for a call that returned and <<>> for a call that raised.
CreateCall(api, idx, geom, ret) ==
    [api |-> api, geom |-> idx, name |-> geom.name,
     pattern |-> geom.prop_name, value |-> Frac(0, 1), ret |-> ret]

\* One turn of a create loop in which AddByCoord returns: the loop tests
\* the second item of the tuple returned, ret[1]; when that is 0 the
\* element is counted, otherwise a warning is printed.
CreateElement(stage, geometries, api) ==
    /\ pc = stage
    /\ Len(geometries) <= MaxBatch
    /\ geom_idx < Len(geometries)
    /\ \E ret \in AddStatus :
        /\ created_count' =
               IF NotZero(AddByCoordReturn(api, geom_idx + 1,
                                           geometries[geom_idx + 1], ret)[2])
               THEN created_count ELSE created_count + 1
        /\ etabs_calls' = Append(etabs_calls,
                                 CreateCall(api, geom_idx + 1, geometries[geom_idx + 1], <<ret>>))
        /\ geom_idx' = geom_idx + 1
    /\ UNCHANGED <<frameVars, pc, unit_config, stories, base_elevation, rect_columns,
                   circ_columns, walls, coupling_beams, slabs, dxf_points, dxf_lines,
                   dxf_polylines, column_geometries, wall_geometries,
                   beam_geometries, slab_geometries, ledgerVars, defineVars, queryVars>>

\* One turn in which AddByCoord raises: the handler prints, the loop goes on.
CreateElementRaises(stage, geometries, api) ==
    /\ pc = stage
    /\ Len(geometries) <= MaxBatch
    /\ geom_idx < Len(geometries)
    /\ etabs_calls' = Append(etabs_calls,
                             CreateCall(api, geom_idx + 1, geometries[geom_idx + 1], <<>>))
    /\ geom_idx' = geom_idx + 1
    /\ UNCHANGED <<frameVars, pc, unit_config, stories, base_elevation, rect_columns,
                   circ_columns, walls, coupling_beams, slabs, dxf_points, dxf_lines,
                   dxf_polylines, column_geometries, wall_geometries,
                   beam_geometries, slab_geometries, created_count, ledgerVars, defineVars, queryVars>>

\* The loop is over: the count is printed.
FinishCreate(stage, geometries) ==
    /\ pc = stage
    /\ Len(geometries) <= MaxBatch
    /\ geom_idx = Len(geometries)
    /\ pc' = "created"
    /\ UNCHANGED <<frameVars, unit_config, stories, base_elevation, rect_columns,
                   circ_columns, walls, coupling_beams, slabs, dxf_points, dxf_lines,
                   dxf_polylines, column_geometries, wall_geometries,
                   beam_geometries, slab_geometries, createVars, ledgerVars, defineVars, queryVars>>

\* The column loop tests ret[1] of FrameObj.AddByCoord, the status.
CreateColumn == CreateElement("columns", column_geometries, "FrameObj.AddByCoord")

CreateColumnRaises == CreateElementRaises("columns", column_geometries, "FrameObj.AddByCoord")

FinishCreateColumns == FinishCreate("columns", column_geometries)

\* The wall loop tests ret[1] of AreaObj.AddByCoord, the array of the y
\* coordinates: no wall is counted, whatever the status.
CreateWall == CreateElement("walls", wall_geometries, "AreaObj.AddByCoord")

CreateWallRaises == CreateElementRaises("walls", wall_geometries, "AreaObj.AddByCoord")

FinishCreateWalls == FinishCreate("walls", wall_geometries)

\* The beam loop tests ret[1] of FrameObj.AddByCoord, the status.
CreateBeam == CreateElement("beams", beam_geometries, "FrameObj.AddByCoord")

CreateBeamRaises == CreateElementRaises("beams", beam_geometries, "FrameObj.AddByCoord")

FinishCreateBeams == FinishCreate("beams", beam_geometries)

NextCreate ==
    \/ ExtrudePointsToColumns
    \/ CreateColumn
    \/ CreateColumnRaises
    \/ FinishCreateColumns
    \/ ExtrudeLinesToWalls
    \/ CreateWall
    \/ CreateWallRaises
    \/ FinishCreateWalls
    \/ ExtrudeLinesToBeams
    \/ CreateBeam
    \/ CreateBeamRaises
    \/ FinishCreateBeams
    \/ ExtrudePolylinesToSlabs
    \/ CreateSlab
    \/ CreateSlabRaises
    \/ FinishCreateSlabs

SpecCreate == InitCreate /\ [][NextCreate]_vars

(***************************************************************************)
(* modeling/model_stories.py, materials/concrete_material.py, sections/    *)
(***************************************************************************)
\* One definition call of the log; ret is <<status>> for a call that
\* returned and <<>> for a call that raised.
DefineCall(api, name, args, ret) ==
    [api |-> api, name |-> name, args |-> args, ret |-> ret]

\* The calls a define operation gets to issue out of the calls it intends,
\* when the fail-th of them (0: none) comes back with this outcome and the
\* operation stops there.
IssuedUntil(intended, fail, outcome) ==
    [k \in 1..(IF fail = 0 THEN Len(intended) ELSE fail) |->
        [intended[k] EXCEPT !.ret = IF k = fail THEN outcome ELSE <<0>>]]

\* The calls issued when the fail-th of them (0: none) comes back with this
\* outcome and the operation goes on regardless.
IssuedThrough(intended, fail, outcome) ==
    [k \in DOMAIN intended |->
        [intended[k] EXCEPT !.ret = IF k = fail THEN outcome ELSE <<0>>]]

\* The records of a table that are the first of their name, in table order
\* (unique_walls, unique_slabs, unique_beams).
FirstOfName(table) ==
    SelectSeq([i \in DOMAIN table |->
                  [rec |-> table[i],
                   first |-> \A j \in 1..(i - 1) : table[j].name # table[i].name]],
              LAMBDA e : e.first)

\* The records a define operation defines: first of their name and not
\* among the existing names.
ToDefine(table, existing) ==
    SelectSeq(FirstOfName(table), LAMBDA e : e.rec.name \notin existing)

\* random.randint(0, 16777215): the ends of the range stand for its values.
ColorChoices == {0, 16777215}

\* The arguments define_stories hands to SetStories_2.
SetStoriesArgs(sts, base, cfg, colors) ==
    <<convert_story_height(base, cfg), Len(sts),
      [i \in DOMAIN sts |-> sts[i].level],
      [i \in DOMAIN sts |-> convert_story_height(sts[i].height, cfg)],
      colors>>

\* A faulty order: the isotropic properties are set before the base type.
ConcreteCalls_IsotropicFirst(mats, existing) ==
    <<DefineCall("PropMaterial.GetNameList", "", <<>>, <<0>>)>> \o
    Flatten([i \in DOMAIN mats |->
        IF mats[i].name \in existing THEN <<>>
        ELSE <<DefineCall("PropMaterial.SetMPIsotropic", mats[i].name, <<>>, <<0>>),
               DefineCall("PropMaterial.SetMaterial", mats[i].name, <<2>>, <<0>>),
               DefineCall("PropMaterial.SetOConcrete_1", mats[i].name, <<>>, <<0>>)>>])

\* The calls define_concrete_materials intends: the name list, then three
\* per material to define.
ConcreteCalls(mats, existing) ==
    <<DefineCall("PropMaterial.GetNameList", "", <<>>, <<0>>)>> \o
    Flatten([i \in DOMAIN mats |->
        IF mats[i].name \in existing THEN <<>>
        ELSE <<DefineCall("PropMaterial.SetMaterial", mats[i].name, <<2>>, <<0>>),
               DefineCall("PropMaterial.SetMPIsotropic", mats[i].name, <<>>, <<0>>),
               DefineCall("PropMaterial.SetOConcrete_1", mats[i].name, <<>>, <<0>>)>>])

\* The calls of define_wall_sections / define_slab_sections: the name list,
\* then one per section.
AreaSectionCalls(api, table, existing) ==
    <<DefineCall("PropArea.GetNameList", "", <<>>, <<0>>)>> \o
    [k \in DOMAIN ToDefine(table, existing) |->
        DefineCall(api, ToDefine(table, existing)[k].rec.name, <<>>, <<0>>)]

\* The calls of define_beam_sections: the name list, then geometry and
\* rebar per section.
BeamSectionCalls(table, existing) ==
    <<DefineCall("PropFrame.GetNameList", "", <<>>, <<0>>)>> \o
    Flatten([k \in DOMAIN ToDefine(table, existing) |->
        <<DefineCall("PropFrame.SetRectangle", ToDefine(table, existing)[k].rec.name,
                     <<>>, <<0>>),
          DefineCall("PropFrame.SetRebarBeam", ToDefine(table, existing)[k].rec.name,
                     <<>>, <<0>>)>>])

\* The attributes of a column object that define_rectangular_section and
\* define_circular_section read for their rebar call and that the record
\* classes RectColumn and CircColumn do not declare (they declare
\* tie_bar_mat and num_C_bars); section_name, read for the geometry call
\* already, is not declared either (the classes declare name).
RectRebarAttrs == {"confine_mat"}

CircRebarAttrs == {"confine_mat", "num_bars"}

\* define_rectangular_section / define_circular_section for one column
\* object when the fail-th call (0: none) comes back non-zero: the calls
\* issued and how the function is left. Reading an attribute the object
\* does not carry raises AttributeError while the arguments of a call are
\* evaluated, before that call is issued; a non-zero status raises
\* Exception.
ColumnSectionCalls(api, column, rebar_attrs, fail) ==
    IF "section_name" \notin DOMAIN column
    THEN [issued |-> <<>>, raised |-> "AttributeError"]
    ELSE LET geometry == DefineCall(api, column.section_name, <<>>,
                                    <<IF fail = 1 THEN 1 ELSE 0>>)
             rebar == DefineCall("PropFrame.SetRebarColumn", column.section_name,
                                 <<>>, <<IF fail = 2 THEN 1 ELSE 0>>)
         IN  IF fail = 1
             THEN [issued |-> <<geometry>>, raised |-> "Exception"]
             ELSE IF ~(rebar_attrs \subseteq DOMAIN column)
             THEN [issued |-> <<geometry>>, raised |-> "AttributeError"]
             ELSE IF fail = 2
             THEN [issued |-> <<geometry, rebar>>, raised |-> "Exception"]
             ELSE [issued |-> <<geometry, rebar>>, raised |-> "None"]

(***************************************************************************)
(* The definition run: one define operation at the boundary of the         *)
(* modelling program, each call of which may come back with a status.      *)
(***************************************************************************)
ConcreteNames == <<"C4000", "C5000", "C6000">>

\* Tables whose records take the first or the second of these names.
NamedTables(names) ==
    UNION {{[i \in 1..n |-> [level |-> LevelNames[i], name |-> names[pick[i]]]] :
              pick \in [1..n -> {1, 2}]} : n \in 0..MaxRecords}

\* The names the modelling program may already hold.
ExistingChoices(names) == {{}, {names[1]}}

InitDefine ==
    /\ pc = "define"
    /\ unit_config \in {US_UNITS, METRIC_UNITS}
    /\ stories \in BatchStoryLists \cup {<<>>}
    /\ base_elevation \in BaseChoices
    /\ NoTables
    /\ NoPlanPrimitives
    /\ NoGeometry
    /\ NoFrame
    /\ NoCreation
    /\ NoLedger
    /\ NoDefinition
    /\ NoQuery

\* The frame of a define action: what it logs and where it leaves the run.
Defined(issued, raised) ==
    /\ etabs_calls' = issued
    /\ pc' = IF raised THEN "error" ELSE "defined"
    /\ UNCHANGED <<frameVars, unit_config, stories, base_elevation, dxf_points, dxf_lines,
                   dxf_polylines, column_geometries, wall_geometries,
                   beam_geometries, slab_geometries, geom_idx, created_count,
                   ledgerVars, replay_calls, queryVars>>

\* define_stories: nothing is issued for an empty list; a non-zero status
\* of SetStories_2 raises.
DefineStories ==
    /\ pc = "define"
    /\ \E colors \in [DOMAIN stories -> ColorChoices], status \in AddStatus :
        Defined(IF stories = <<>> THEN <<>>
                ELSE <<DefineCall("Story.SetStories_2", "",
                                  SetStoriesArgs(stories, base_elevation,
                                                 unit_config, colors),
                                  <<status>>)>>,
                stories # <<>> /\ status # 0)
    /\ UNCHANGED <<frameVars, rect_columns, circ_columns, walls, coupling_beams, slabs,
                   concretes, existing_names>>

\* define_concrete_materials: no status is looked at; a call that raises
\* ends the loop in the handler, which prints and returns.
DefineConcreteMaterials ==
    /\ pc = "define"
    /\ \E mats \in NamedTables(ConcreteNames),
          existing \in ExistingChoices(ConcreteNames) :
        \E fail \in 0..Len(ConcreteCalls(mats, existing)), raises \in BOOLEAN :
            /\ raises => fail # 0
            /\ concretes' = mats
            /\ existing_names' = existing
            /\ Defined(IF raises
                       THEN IssuedUntil(ConcreteCalls(mats, existing), fail, <<>>)
                       ELSE IssuedThrough(ConcreteCalls(mats, existing), fail, <<1>>),
                       FALSE)
    /\ UNCHANGED <<frameVars, rect_columns, circ_columns, walls, coupling_beams, slabs>>

DefineWallSections ==
    /\ pc = "define"
    /\ \E table \in NamedTables(WallNamesX), existing \in ExistingChoices(WallNamesX) :
        \E fail \in 0..Len(AreaSectionCalls("PropArea.SetWall", table, existing)) :
            /\ walls' = table
            /\ existing_names' = existing
            /\ Defined(IssuedUntil(AreaSectionCalls("PropArea.SetWall", table, existing),
                                   fail, <<1>>),
                       fail # 0)
    /\ UNCHANGED <<frameVars, rect_columns, circ_columns, coupling_beams, slabs, concretes>>

DefineSlabSections ==
    /\ pc = "define"
    /\ \E table \in NamedTables(SlabNames), existing \in ExistingChoices(SlabNames) :
        \E fail \in 0..Len(AreaSectionCalls("PropArea.SetSlab", table, existing)) :
            /\ slabs' = table
            /\ existing_names' = existing
            /\ Defined(IssuedUntil(AreaSectionCalls("PropArea.SetSlab", table, existing),
                                   fail, <<1>>),
                       fail # 0)
    /\ UNCHANGED <<frameVars, rect_columns, circ_columns, walls, coupling_beams, concretes>>

DefineBeamSections ==
    /\ pc = "define"
    /\ \E table \in NamedTables(BeamNames), existing \in ExistingChoices(BeamNames) :
        \E fail \in 0..Len(BeamSectionCalls(table, existing)) :
            /\ coupling_beams' = table
            /\ existing_names' = existing
            /\ Defined(IssuedUntil(BeamSectionCalls(table, existing), fail, <<1>>),
                       fail # 0)
    /\ UNCHANGED <<frameVars, rect_columns, circ_columns, walls, slabs, concretes>>

\* The column objects a column-section operation may be handed: a record
\* as its class declares it, or a stand-in that also carries section_name,
\* or section_name and the attributes of the rebar call.
ColumnObjects(names, rebar_attrs) ==
    UNION {{[level |-> "L1", name |-> names[k]],
            [a \in {"level", "name", "section_name"} |->
                IF a = "level" THEN "L1" ELSE names[k]],
            [a \in {"level", "name", "section_name"} \cup rebar_attrs |->
                IF a = "level" THEN "L1" ELSE names[k]]} :
           k \in 1..MaxRecords}

DefineRectangularSection ==
    /\ pc = "define"
    /\ \E column \in ColumnObjects(RectNames, RectRebarAttrs), fail \in 0..2 :
        \E out \in {ColumnSectionCalls("PropFrame.SetRectangle", column,
                                         RectRebarAttrs, fail)} :
            /\ rect_columns' = <<column>>
            /\ Defined(out.issued, out.raised # "None")
    /\ UNCHANGED <<frameVars, circ_columns, walls, coupling_beams, slabs, concretes,
                   existing_names>>

DefineCircularSection ==
    /\ pc = "define"
    /\ \E column \in ColumnObjects(CircNames, CircRebarAttrs), fail \in 0..2 :
        \E out \in {ColumnSectionCalls("PropFrame.SetCircle", column,
                                         CircRebarAttrs, fail)} :
            /\ circ_columns' = <<column>>
            /\ Defined(out.issued, out.raised # "None")
    /\ UNCHANGED <<frameVars, rect_columns, walls, coupling_beams, slabs, concretes,
                   existing_names>>

\* define_stories run a second time on the same stories, base elevation and
\* unit configuration, the modelling program answering as it did the first
\* time; the colours are drawn afresh.
ReplayDefineStories ==
    /\ pc \in {"defined", "error"}
    /\ stories # <<>>
    /\ Len(etabs_calls) = 1
    /\ etabs_calls[1].api = "Story.SetStories_2"
    /\ \E colors \in [DOMAIN stories -> ColorChoices] :
        replay_calls' = <<DefineCall("Story.SetStories_2", "",
                                     SetStoriesArgs(stories, base_elevation,
                                                    unit_config, colors),
                                     etabs_calls[1].ret)>>
    /\ pc' = "replayed"
    /\ UNCHANGED <<frameVars, unit_config, stories, base_elevation, rect_columns, circ_columns,
                   walls, coupling_beams, slabs, dxf_points, dxf_lines,
                   dxf_polylines, column_geometries, wall_geometries,
                   beam_geometries, slab_geometries, createVars, ledgerVars,
                   concretes, existing_names, queryVars>>

NextDefine ==
    \/ DefineStories
    \/ ReplayDefineStories
    \/ DefineConcreteMaterials
    \/ DefineWallSections
    \/ DefineSlabSections
    \/ DefineBeamSections
    \/ DefineRectangularSection
    \/ DefineCircularSection

SpecDefine == InitDefine /\ [][NextDefine]_vars

(***************************************************************************)
(* utils/buid_etabs_level_by_level.py                                      *)
(* The level-by-level builder: the script that is to read the workbook,    *)
(* define stories, materials and sections, extrude story by story and      *)
(* create the four batches.                                                *)
(***************************************************************************)
\* The names the builder and main.py import from the two column-section
\* modules, and the names those modules define.
ImportedSectionNames == {"define_circular_sections", "define_rectangular_sections"}

DefinedSectionNames == {"define_circular_section", "define_rectangular_section"}

\* The names utils/build_etabs_data.py imports, directly and through
\* utils/get_elements.py, from the extruder, the plan reader, the workbook
\* reader and the record module, and the names of those that the modules
\* define.
ImportedReconcilerNames ==
    {"extrude_point", "extrude_line", "extrude_polygon",
     "_get_points_by_layer", "_get_lines_by_layer", "_get_polylines_by_layer",
     "read_dxf_plan", "read_story_table", "read_column_table",
     "read_wall_table", "read_coupling_beam_table", "read_slab_table",
     "Story", "Column", "Wall", "CouplingBeam", "Slab"}

DefinedReconcilerNames ==
    {"read_dxf_plan", "read_story_table", "read_wall_table",
     "read_coupling_beam_table", "read_slab_table",
     "Story", "Wall", "CouplingBeam", "Slab"}

\* Before the builder is loaded: the workbook is on disk, nothing is read,
\* nothing is issued.
InitBuild ==
    /\ pc = "ready"
    /\ unit_config = NoneConfig
    /\ stories = <<>>
    /\ base_elevation = 0
    /\ NoTables
    /\ NoPlanPrimitives
    /\ NoGeometry
    /\ NoFrame
    /\ NoCreation
    /\ NoDefinition
    /\ NoQuery
    /\ sheet_rows \in SheetRowLists
    /\ heights_list = <<>>
    /\ base_map = <<>>
    /\ top_map = <<>>
    /\ columns_geo = <<>>
    /\ merged_columns = <<>>
    /\ walls_geo = <<>>
    /\ slabs_geo = <<>>
    /\ merged_walls = <<>>
    /\ merged_slabs = <<>>

\* Loading the builder: its import of a name that the section module does
\* not define raises ImportError before etabs_model_builder_level_by_level
\* exists, so no step of the function is taken.
ImportLevelByLevelBuilder ==
    /\ pc = "ready"
    /\ ~(ImportedSectionNames \subseteq DefinedSectionNames)
    /\ pc' = "error"
    /\ UNCHANGED <<frameVars, unit_config, stories, base_elevation, rect_columns, circ_columns,
                   walls, coupling_beams, slabs, dxf_points, dxf_lines,
                   dxf_polylines, column_geometries, wall_geometries,
                   beam_geometries, slab_geometries, createVars, ledgerVars,
                   defineVars, queryVars>>

\* Loading utils.build_etabs_data: its import of utils.get_elements, which
\* imports names the extruder and the plan reader do not define, raises
\* ImportError before build_etabs_model_data exists.
ImportBuildEtabsData ==
    /\ pc = "ready"
    /\ ~(ImportedReconcilerNames \subseteq DefinedReconcilerNames)
    /\ pc' = "error"
    /\ UNCHANGED <<frameVars, unit_config, stories, base_elevation, rect_columns, circ_columns,
                   walls, coupling_beams, slabs, dxf_points, dxf_lines,
                   dxf_polylines, column_geometries, wall_geometries,
                   beam_geometries, slab_geometries, createVars, ledgerVars,
                   defineVars, queryVars>>

\* Loading main.py: the same import of the section modules raises
\* ImportError before the script body runs.
ImportMain ==
    /\ pc = "ready"
    /\ ~(ImportedSectionNames \subseteq DefinedSectionNames)
    /\ pc' = "error"
    /\ UNCHANGED <<frameVars, unit_config, stories, base_elevation, rect_columns, circ_columns,
                   walls, coupling_beams, slabs, dxf_points, dxf_lines,
                   dxf_polylines, column_geometries, wall_geometries,
                   beam_geometries, slab_geometries, createVars, ledgerVars,
                   defineVars, queryVars>>

NextBuild ==
    \/ ImportLevelByLevelBuilder
    \/ ImportBuildEtabsData
    \/ ImportMain

SpecBuild == InitBuild /\ [][NextBuild]_vars

(***************************************************************************)
(* Properties of the shared-plan run.                                      *)
(***************************************************************************)
Heights(sts) == [i \in DOMAIN sts |-> sts[i].height]

\* The sum of the heights of the first k stories.
HeightBelow(sts, k) == SumSeq(SubSeq(Heights(sts), 1, k))

\* The stories have positive heights and there is at least one.
FrameInputs == Len(stories) >= 1 /\ \A i \in DOMAIN stories : stories[i].height > 0

\* The boundary elevations of extruder.py: n+1 of them, strictly
\* increasing, the first the base, the last the base plus the sum of all
\* heights, element i the base plus the sum of the heights below it.
IsBoundaryList(e) ==
    LET n == Len(stories)
    IN  /\ Len(e) = n + 1
        /\ e[1] = base_elevation
        /\ e[n + 1] = base_elevation + SumSeq(Heights(stories))
        /\ \A i \in 0..n : e[i + 1] = base_elevation + HeightBelow(stories, i)
        /\ \A i \in 1..n : e[i] < e[i + 1]

\* C1 as stated, of both functions named calculate_story_elevations: for a
\* non-empty bottom-up story list of n stories with positive heights and a
\* base elevation b, each returns n+1 boundary elevations, the first b, the
\* last b plus the sum of all heights.
C1_ElevationFrame_BothFunctions ==
    FrameInputs =>
        /\ pc \in {"frame", "floors"} => IsBoundaryList(elevations_list)
        /\ pc = "floors" =>
              /\ Cardinality(DOMAIN elevations_by_level) = Len(stories) + 1
              /\ \E l \in DOMAIN elevations_by_level :
                    elevations_by_level[l] = base_elevation
              /\ \E l \in DOMAIN elevations_by_level :
                    elevations_by_level[l] = base_elevation + SumSeq(Heights(stories))

\* C1 amended: for such a list and base, calculate_story_elevations of
\* extruder.py returns the n+1 boundary elevations, strictly increasing,
\* the first b, the last b plus the sum of all heights, element i equal to
\* b plus the sum of the heights of the stories below it; the one of
\* level_by_level_extruder.py returns a dict that maps each level of the
\* list to the floor elevation of the last story of that level (b plus the
\* sum of the heights below that story), so at most n entries, every one
\* below b plus the sum of all heights: the top boundary is not in it.
C1_ElevationFrame ==
    FrameInputs =>
        /\ pc \in {"frame", "floors"} => IsBoundaryList(elevations_list)
        /\ pc = "floors" =>
              /\ DOMAIN elevations_by_level = {stories[i].level : i \in DOMAIN stories}
              /\ \A i \in DOMAIN stories :
                    (\A j \in DOMAIN stories : j > i => stories[j].level # stories[i].level)
                        => elevations_by_level[stories[i].level]
                              = base_elevation + HeightBelow(stories, i - 1)
              /\ \A l \in DOMAIN elevations_by_level :
                    elevations_by_level[l] < base_elevation + SumSeq(Heights(stories))

\* Three stories of unequal heights from a non-zero base, the top one
\* carrying the level of the bottom one: four boundaries in the list, two
\* floors in the dict, the shared level at the floor of the top story.
C1_Witness ==
    /\ pc = "floors"
    /\ Len(stories) = 3
    /\ [i \in 1..3 |-> stories[i].level] = <<"L1", "L2", "L1">>
    /\ Heights(stories) = <<3, 10, 3>>
    /\ base_elevation = -18
    /\ elevations_list = <<-18, -15, -5, -2>>
    /\ DOMAIN elevations_by_level = {"L1", "L2"}
    /\ elevations_by_level["L1"] = -5
    /\ elevations_by_level["L2"] = -15

\* The position in the output of the element of primitive p and story i.
ElemIndex(p, i) == (p - 1) * Len(stories) + i

\* C3: extrude_points_to_columns emits one ColumnGeom per (plan point, story)
\* pair, |points| x |stories| in all; the column of point (x, y) and story i
\* runs from (x, y) at the story's floor elevation to (x, y) at its ceiling
\* elevation, the elevations being those of the frame expressed in inches.
C3_OneColumnPerPointAndStory ==
    pc = "columns" =>
        /\ Len(column_geometries) = Len(dxf_points) * Len(stories)
        /\ \A p \in DOMAIN dxf_points : \A i \in DOMAIN stories :
              LET c == column_geometries[ElemIndex(p, i)]
                  floor == base_elevation + HeightBelow(stories, i - 1)
                  ceiling == floor + stories[i].height
              IN  /\ c.start_point = <<dxf_points[p][1], dxf_points[p][2], 12 * floor>>
                  /\ c.end_point = <<dxf_points[p][1], dxf_points[p][2], 12 * ceiling>>

\* Three stories of height 10 from base 0 and one point: three columns at
\* the bands [0,10], [10,20], [20,30] (in inches 0-120, 120-240, 240-360).
C3_Witness ==
    /\ pc = "columns"
    /\ Heights(stories) = <<10, 10, 10>>
    /\ base_elevation = 0
    /\ Len(dxf_points) = 1
    /\ Len(column_geometries) = 3
    /\ [i \in 1..3 |-> <<column_geometries[i].start_point[3],
                          column_geometries[i].end_point[3]>>]
         = <<(<<0, 120>>), (<<120, 240>>), (<<240, 360>>)>>

\* The record of a table that a level resolves to: the one a dict keyed by
\* level holds, i.e. the last with that level.
IsRecordOf(table, level, k) ==
    /\ k \in DOMAIN table
    /\ table[k].level = level
    /\ \A j \in DOMAIN table : j > k => table[j].level # level

HasRecord(table, level) == \E k \in DOMAIN table : table[k].level = level

\* C4: the section name of every column emitted for a story band is the name
\* of the rectangular-column record of the story's level if there is one,
\* else the name of the circular-column record of that level if there is
\* one, else "Default".
C4_ColumnSectionPreference ==
    pc = "columns" =>
        \A p \in DOMAIN dxf_points : \A i \in DOMAIN stories :
            LET name == column_geometries[ElemIndex(p, i)].prop_name
                level == stories[i].level
            IN  /\ HasRecord(rect_columns, level) =>
                      \E k \in DOMAIN rect_columns :
                          IsRecordOf(rect_columns, level, k) /\ name = rect_columns[k].name
                /\ (~HasRecord(rect_columns, level) /\ HasRecord(circ_columns, level)) =>
                      \E k \in DOMAIN circ_columns :
                          IsRecordOf(circ_columns, level, k) /\ name = circ_columns[k].name
                /\ (~HasRecord(rect_columns, level) /\ ~HasRecord(circ_columns, level)) =>
                      name = "Default"

\* Three stories, one point, a rectangular record for L2 only and a circular
\* record for L2 as well: the L2 band carries the rectangular name, the others
\* the sentinel.
C4_Witness ==
    /\ pc = "columns"
    /\ Len(stories) = 3
    /\ Len(dxf_points) = 1
    /\ rect_columns = <<[level |-> "L2", name |-> "C24x24"]>>
    /\ circ_columns = <<[level |-> "L2", name |-> "D24"]>>
    /\ [i \in 1..3 |-> column_geometries[i].prop_name]
         = <<"Default", "C24x24", "Default">>

(***************************************************************************)
(* Properties of the story ledger and the reconciler.                      *)
(***************************************************************************)
\* The frame's stories in the order build_story_mappings walks them.
FrameStories == Reverse(stories)

\* The floor elevation of the k-th story of the frame: the sum of the
\* heights below it, the ceiling being the floor plus the story's height.
FloorOf(k) == SumSeq(SubSeq(Heights(FrameStories), 1, k - 1))

CeilingOf(k) == FloorOf(k) + FrameStories[k].height

\* Every story of the frame is higher than 1e-6, the step of the rounded
\* keys: no two boundaries can round to one key.
HeightsResolved == \A i \in DOMAIN stories : stories[i].height > 10

\* Every story of the frame is higher than 1.1e-6, the step of the rounded
\* keys plus the deviation of a segment bottom.
HeightsResolvedUnderNoise == \A i \in DOMAIN stories : stories[i].height > 11

\* The column stack in hand was extruded through the frame's heights list:
\* one top per story, each within 1e-7 of the story's ceiling.
StackOnFrame ==
    /\ Len(columns_geo) = 1
    /\ Len(columns_geo[1]) = Len(heights_list)
    /\ \A i \in DOMAIN heights_list :
          Abs(columns_geo[1][i][3] - SumSeq(SubSeq(heights_list, 1, i))) <= 1

\* C2: the ledger the pipeline builds from a top-down Story sheet through
\* read_story_table and build_story_mappings is the ledger built directly
\* from the bottom-up list of the same rows: the heights list is bottom-up
\* and elevation 0 is the floor of the lowest story (stated for heights
\* whose boundaries keep distinct keys).
C2_PipelineLedgerBottomUp ==
    (pc \in {"mapped", "merged"} /\ HeightsResolved) =>
        <<heights_list, base_map, top_map>> \in
            StoryLedger(Reverse(SelectSeq(sheet_rows, LAMBDA row : row.level # "")))

\* C9 as stated: for every frame of stories with positive heights,
\* merge_columns labels the i-th segment from the bottom of a stack extruded
\* through the frame's heights with the level of the i-th story, the segment
\* bottoms deviating by up to 1e-7.
C9_SegmentLabels_AnyHeight ==
    (pc \in {"merged", "merge raised"} /\ StackOnFrame) =>
        /\ Len(merged_columns) = Len(FrameStories)
        /\ \A i \in DOMAIN merged_columns :
               merged_columns[i].level = FrameStories[i].level

\* C9 amended: the same, for frames whose story heights are greater than
\* 1.1e-6 (the 1e-6 step of the rounded keys plus the deviation of 1e-7).
C9_SegmentLabels ==
    (pc \in {"merged", "merge raised"} /\ StackOnFrame
        /\ HeightsResolvedUnderNoise) =>
        /\ Len(merged_columns) = Len(FrameStories)
        /\ \A i \in DOMAIN merged_columns :
               merged_columns[i].level = FrameStories[i].level

\* Three stories 1.4e-6 high whose stack tops lie 1e-7 above the
\* boundaries, the segments labelled L1, L2, L3: the bottom of the second,
\* 1.5e-6, is taken for the floor at 1.4e-6 and the bottom of the third,
\* 2.9e-6, for the floor at 2.8e-6.
C9_Witness ==
    /\ pc = "merged"
    /\ heights_list = <<14, 14, 14>>
    /\ columns_geo[1][1][3] = 15
    /\ columns_geo[1][2][3] = 29
    /\ [i \in 1..3 |-> merged_columns[i].level] = <<"L1", "L2", "L3">>

\* C10 as stated: for every frame of stories with unique levels and positive
\* heights and every story, the lookup of its floor elevation in base_map
\* and of its ceiling elevation in top_map returns its level.
C10_LedgerRoundTrip_AnyHeight ==
    pc \in {"mapped", "merged"} =>
        \A k \in DOMAIN FrameStories :
            /\ find_level_by_base_elev(base_map, FloorOf(k)) = {FrameStories[k].level}
            /\ find_level_by_top_elev(top_map, CeilingOf(k)) = {FrameStories[k].level}

\* C10 amended: the same, for frames whose story heights are greater than
\* 1e-6, the step of the rounded keys.
C10_LedgerRoundTrip ==
    (pc \in {"mapped", "merged"} /\ HeightsResolved) =>
        \A k \in DOMAIN FrameStories :
            /\ find_level_by_base_elev(base_map, FloorOf(k)) = {FrameStories[k].level}
            /\ find_level_by_top_elev(top_map, CeilingOf(k)) = {FrameStories[k].level}

\* A ledger of three stories, the boundary at 2.5e-6 midway between two
\* keys of the 6-decimal grid, whose middle story is found by its floor and
\* by its ceiling.
C10_Witness ==
    /\ pc = "mapped"
    /\ heights_list = <<14, 11, 10^8>>
    /\ find_level_by_base_elev(base_map, 14) = {FrameStories[2].level}
    /\ find_level_by_top_elev(top_map, 25) = {FrameStories[2].level}

(***************************************************************************)
(* Properties of the per-story run.                                        *)
(***************************************************************************)
\* The band of the i-th story in model units.
BandBottom(i) == (base_elevation + HeightBelow(stories, i - 1)) * unit_config.length_to_model

BandTop(i) == (base_elevation + HeightBelow(stories, i)) * unit_config.length_to_model

Scaled(seq, c) == [v \in DOMAIN seq |-> seq[v][c] * unit_config.length_to_model]

\* C5: a plan primitive without a matching section record is not dropped:
\* every point, wall line and slab polygon of a story's plan yields its
\* element in the story's band, with the section "Default" (and loads 0 for
\* a slab) when no record names the story's level.
C5_UnmatchedNeverDropped ==
    pc = "levels" =>
        \A i \in DOMAIN stories :
            ~NoPlan(stories[i]) =>
                LET doc == read_dxf_plan(stories[i].dxf_path)[1]
                    level == stories[i].level
                    f == unit_config.length_to_model
                IN  /\ \A layer \in {"REC COLS", "CIR COLS"} :
                         \A pt \in Range(get_points_by_layer(doc, layer)) :
                            \E g \in Range(column_geometries) :
                               /\ g.start_point = <<pt[1] * f, pt[2] * f, BandBottom(i)>>
                               /\ g.end_point = <<pt[1] * f, pt[2] * f, BandTop(i)>>
                               /\ (~HasRecord(rect_columns, level)
                                     /\ ~HasRecord(circ_columns, level))
                                  => g.prop_name = "Default"
                    /\ \A layer \in {"WALL", "WALL Y"} :
                         \A ln \in Range(get_lines_by_layer(doc, layer)) :
                            \E g \in Range(wall_geometries) :
                               /\ g.x_coord = <<ln[1][1] * f, ln[2][1] * f,
                                                ln[2][1] * f, ln[1][1] * f>>
                               /\ g.z_coord = <<BandBottom(i), BandBottom(i),
                                                BandTop(i), BandTop(i)>>
                               /\ ~HasRecord(walls, level) => g.prop_name = "Default"
                    /\ \A poly \in Range(get_polylines_by_layer(doc, "SLAB")) :
                            \E g \in Range(slab_geometries) :
                               /\ g.x_coord = Scaled(poly, 1)
                               /\ g.z_coord = [v \in DOMAIN poly |-> BandTop(i)]
                               /\ ~HasRecord(slabs, level) =>
                                     /\ g.prop_name = "Default"
                                     /\ g.sdl = 0
                                     /\ g.live = 0

\* C8: every slab polygon of a story's plan yields exactly one SlabGeom with
\* the polygon's vertices in order, every z at the story's ceiling in model
\* units, carrying the name and loads of a Slab record of the story's level,
\* or "Default" and loads 0 when there is none.
C8_OneSlabPerPolygon ==
    pc = "levels" =>
        \A i \in DOMAIN stories :
            ~NoPlan(stories[i]) =>
                \A poly \in Range(get_polylines_by_layer(
                                     read_dxf_plan(stories[i].dxf_path)[1], "SLAB")) :
                    LET level == stories[i].level
                        hits == {j \in DOMAIN slab_geometries :
                                   /\ slab_geometries[j].x_coord = Scaled(poly, 1)
                                   /\ slab_geometries[j].y_coord = Scaled(poly, 2)
                                   /\ slab_geometries[j].z_coord =
                                          [v \in DOMAIN poly |-> BandTop(i)]}
                    IN  /\ Cardinality(hits) = 1
                        /\ \A j \in hits :
                            LET g == slab_geometries[j]
                            IN  /\ g.num_points = Len(poly)
                                /\ IF HasRecord(slabs, level)
                                   THEN \E k \in DOMAIN slabs :
                                           /\ slabs[k].level = level
                                           /\ g.prop_name = slabs[k].name
                                           /\ g.sdl = slabs[k].sdl
                                           /\ g.live = slabs[k].live
                                   ELSE /\ g.prop_name = "Default"
                                        /\ g.sdl = 0
                                        /\ g.live = 0

(***************************************************************************)
(* Properties of the shared-plan run: units.                               *)
(***************************************************************************)
\* The floor and ceiling of the i-th story in input units.
FloorElev(i) == base_elevation + HeightBelow(stories, i - 1)

CeilElev(i) == base_elevation + HeightBelow(stories, i)

\* C6: every x, y and z of every emitted element is the input value times
\* length_to_model (12 in the US system of the shared-plan run), once.
C6_EveryCoordinateConvertedOnce ==
    LET f == US_UNITS.length_to_model
    IN  /\ pc = "columns" =>
            \A p \in DOMAIN dxf_points : \A i \in DOMAIN stories :
                LET g == column_geometries[ElemIndex(p, i)]
                    pt == dxf_points[p]
                IN  /\ g.start_point = <<pt[1] * f, pt[2] * f, FloorElev(i) * f>>
                    /\ g.end_point = <<pt[1] * f, pt[2] * f, CeilElev(i) * f>>
        /\ pc = "walls" =>
            \A l \in DOMAIN dxf_lines : \A i \in DOMAIN stories :
                LET g == wall_geometries[ElemIndex(l, i)]
                    ln == dxf_lines[l]
                IN  /\ g.x_coord = <<ln[1][1] * f, ln[2][1] * f, ln[2][1] * f, ln[1][1] * f>>
                    /\ g.y_coord = <<ln[1][2] * f, ln[2][2] * f, ln[2][2] * f, ln[1][2] * f>>
                    /\ g.z_coord = <<FloorElev(i) * f, FloorElev(i) * f,
                                     CeilElev(i) * f, CeilElev(i) * f>>
        /\ pc = "beams" =>
            \A l \in DOMAIN dxf_lines : \A i \in DOMAIN stories :
                LET g == beam_geometries[ElemIndex(l, i)]
                    ln == dxf_lines[l]
                IN  /\ g.start_point = <<ln[1][1] * f, ln[1][2] * f, CeilElev(i) * f>>
                    /\ g.end_point = <<ln[2][1] * f, ln[2][2] * f, CeilElev(i) * f>>
        /\ pc = "slabs" =>
            \A p \in DOMAIN dxf_polylines : \A i \in DOMAIN stories :
                LET g == slab_geometries[ElemIndex(p, i)]
                    poly == dxf_polylines[p]
                IN  /\ g.x_coord = [v \in DOMAIN poly |-> poly[v][1] * f]
                    /\ g.y_coord = [v \in DOMAIN poly |-> poly[v][2] * f]
                    /\ g.z_coord = [v \in DOMAIN poly |-> CeilElev(i) * f]

(***************************************************************************)
(* Properties of the slab run.                                             *)
(***************************************************************************)
\* The value of the Slab record behind a load assignment: the record of the
\* level of the slab the call is for, by the load pattern.
RecordLoad(call) ==
    LET level == slab_geometries[call.geom].name[3]
        rec == slabs[LastIndexOf(slabs, level)]
    IN  IF call.pattern = "Live" THEN rec.live ELSE rec.sdl

LoadCallsFor(idx, pattern) ==
    {c \in DOMAIN etabs_calls :
        /\ etabs_calls[c].api = "AreaObj.SetLoadUniform"
        /\ etabs_calls[c].geom = idx
        /\ etabs_calls[c].pattern = pattern}

\* C7: a load that reaches SetLoadUniform is the Slab record's value over
\* 144 in the US configuration and the record's value in the Metric one, and
\* it is assigned once per slab and pattern; a load of 0 converts to 0.
C7_LoadConvertedOnce ==
    unit_config.system \in {"US", "Metric"} =>
        /\ \A c \in DOMAIN etabs_calls :
              LET call == etabs_calls[c]
              IN  call.api = "AreaObj.SetLoadUniform" =>
                    /\ LastIndexOf(slabs, slab_geometries[call.geom].name[3]) # 0
                    /\ Cardinality(LoadCallsFor(call.geom, call.pattern)) = 1
                    /\ unit_config.system = "US" =>
                          call.value.num * 144 = RecordLoad(call) * call.value.den
                    /\ unit_config.system = "Metric" =>
                          call.value = [num |-> RecordLoad(call), den |-> 1]
        /\ convert_load(0, unit_config, TRUE) = [num |-> 0, den |-> 1]

\* A US run that has assigned a super-dead load of 20 psf as 20/144 = 5/36.
C7_Witness ==
    /\ unit_config.system = "US"
    /\ \E c \in DOMAIN etabs_calls :
          /\ etabs_calls[c].api = "AreaObj.SetLoadUniform"
          /\ etabs_calls[c].pattern = "Dead"
          /\ RecordLoad(etabs_calls[c]) = 20
          /\ etabs_calls[c].value = [num |-> 5, den |-> 36]

(***************************************************************************)
(* Properties of the empty story list.                                     *)
(***************************************************************************)
\* C11: an empty story list is fatal: no operation that builds or consumes
\* the elevation frame returns normally or proceeds to geometry for it, so a
\* run handed an empty list never leaves its starting point.
C11_EmptyStoryListAborts ==
    stories = <<>> => pc \in {"ready", "sheet", "error"}

(***************************************************************************)
(* Properties of the create loops.                                         *)
(***************************************************************************)
\* The create calls of the log, in the order they were issued.
CreateCalls ==
    SelectSeq(etabs_calls,
              LAMBDA c : c.api \in {"FrameObj.AddByCoord", "AreaObj.AddByCoord"})

\* The batch of the run: a run extrudes and creates one kind of element.
BatchInHand ==
    column_geometries \o wall_geometries \o beam_geometries \o slab_geometries

\* The create calls that failed: a non-zero status or a raise.
FailedCalls ==
    {k \in DOMAIN CreateCalls : CreateCalls[k].ret # <<0>>}

\* C12: in the four create loops a create call that fails (non-zero status
\* or raise) neither aborts the batch nor is retried: the k-th create call
\* is for the k-th geometry of the list, one call each, the successes
\* counted plus the failures make the number of geometries handled, and a
\* finished batch has handled every geometry. The wall loop breaks the
\* count: a wall whose create call returned status 0 is not counted.
C12_OneCreateCallEach ==
    pc \in {"columns", "walls", "beams", "slabs", "created"} =>
        /\ Len(CreateCalls) = geom_idx
        /\ \A k \in DOMAIN CreateCalls :
              /\ CreateCalls[k].geom = k
              /\ CreateCalls[k].name = BatchInHand[k].name
              /\ CreateCalls[k].pattern = BatchInHand[k].prop_name
        /\ created_count + Cardinality(FailedCalls) = geom_idx
        /\ pc = "created" => geom_idx = Len(BatchInHand)

(***************************************************************************)
(* Properties of the definition run.                                       *)
(***************************************************************************)
\* The calls of the log that came back with a non-zero status.
NonZeroCalls == {k \in DOMAIN etabs_calls :
                    etabs_calls[k].ret # <<>> /\ etabs_calls[k].ret # <<0>>}

\* C13: a non-zero status from a definition call is fatal: the defining
\* operation raises, so the failed call is the last call it issued and the
\* run ends in error, never in a state from which creation goes on.
C13_NonZeroDefinitionStatusIsFatal ==
    pc \in {"defined", "error"} =>
        \A k \in NonZeroCalls : k = Len(etabs_calls) /\ pc = "error"

(***************************************************************************)
(* Properties of the per-story run: unreadable plans.                      *)
(***************************************************************************)
\* The stories whose plan file exists and is refused by the reader.
CorruptStories ==
    {idx \in DOMAIN stories :
        /\ HasPlanPath(stories[idx])
        /\ stories[idx].dxf_path \in CorruptFiles
        /\ ~NoPlan(stories[idx])}

\* C14: a plan that cannot be read ends the whole run: the run is left by
\* exit, it hands over no geometry for any story, also not for the stories
\* whose plans are sound, and no creation call is issued.
C14_UnreadablePlanEndsRun ==
    (CorruptStories # {} /\ pc # "ready") =>
        /\ pc = "exit"
        /\ NoGeometry
        /\ etabs_calls = <<>>

\* A run left by exit whose first story has a sound plan with primitives and
\* whose second story has the refused plan.
C14_Witness ==
    /\ pc = "exit"
    /\ Len(stories) = 2
    /\ stories[1].dxf_path = "planA.dxf"
    /\ stories[2].dxf_path = "corrupt.dxf"
    /\ LastIndexOf(rect_columns, stories[1].level) # 0
    /\ NoGeometry

(***************************************************************************)
(* Properties of the layer queries.                                        *)
(***************************************************************************)
\* The positions of the drawing's entities of these kinds on exactly this
\* layer, in drawing order.
OnLayer(kinds, layer) ==
    SelectSeq([i \in DOMAIN drawing |-> i],
              LAMBDA i : drawing[i].kind \in kinds /\ drawing[i].layer = layer)

\* Whether a polyline of the drawing is closed.
IsClosed(e) == IF "closed" \in DOMAIN e THEN e.closed ELSE e.is_closed

\* The positions of the polylines asked for: on the layer, and closed when
\* only closed ones are asked for.
PolylinesAsked ==
    SelectSeq(OnLayer({"LWPOLYLINE", "POLYLINE"}, query.layer),
              LAMBDA i : query.closed_only => IsClosed(drawing[i]))

\* C15: a layer query returns, never raising, exactly the primitives of
\* the kind asked for whose layer name equals the queried name, in drawing
\* order; nothing of another layer appears, and a layer without such a
\* primitive gives the empty sequence. The query of the closed polylines of
\* a layer that holds a heavy POLYLINE raises.
C15_LayerQueryExact ==
    pc \in {"queried", "query raised"} =>
        /\ pc = "queried"
        /\ Len(dxf_points) = Len(OnLayer({"POINT"}, query.layer))
        /\ \A k \in DOMAIN dxf_points :
              dxf_points[k] = drawing[OnLayer({"POINT"}, query.layer)[k]].geom
        /\ Len(dxf_lines) = Len(OnLayer({"LINE"}, query.layer))
        /\ \A k \in DOMAIN dxf_lines :
              dxf_lines[k] = drawing[OnLayer({"LINE"}, query.layer)[k]].geom
        /\ Len(dxf_polylines) = Len(PolylinesAsked)
        /\ \A k \in DOMAIN dxf_polylines :
              /\ Len(dxf_polylines[k]) = Len(drawing[PolylinesAsked[k]].geom)
              /\ \A v \in DOMAIN dxf_polylines[k] :
                    /\ dxf_polylines[k][v][1] = drawing[PolylinesAsked[k]].geom[v][1]
                    /\ dxf_polylines[k][v][2] = drawing[PolylinesAsked[k]].geom[v][2]

(***************************************************************************)
(* Properties of two runs on the same inputs.                              *)
(***************************************************************************)
\* C16: two runs on the same inputs issue the same boundary calls with the
\* same arguments: the story definition call of the second run is the call
\* of the first.
C16_SameInputsSameCalls ==
    pc = "replayed" => replay_calls = etabs_calls

(***************************************************************************)
(* Properties of the elevation lookups.                                    *)
(***************************************************************************)
\* Distances from a key at which a lookup is asked: on the key, within the
\* rounding of a key, at the tolerance and one tick beyond it.
QueryOffsets == {0, 1, 4, 5, 6, 15, EPS, EPS + 1,
                 -1, -4, -5, -6, -15, -EPS, -(EPS + 1)}

LookupQueries(map) == {map[i][1] + d : i \in DOMAIN map, d \in QueryOffsets}

\* What a lookup of z in a non-empty map is to return: the level of the
\* key z if there is one, else the level of a nearest key if it is within
\* the tolerance, else None. At a distance of 1e-3 in ticks the doubles
\* decide on which side of the tolerance the key lies.
LookupAsSpecified(map, z, found) ==
    IF DictHas(map, z) THEN found = DictGet(map, z)
    ELSE \/ \E i \in DOMAIN map :
               /\ Abs(map[i][1] - z) <= EPS
               /\ \A j \in DOMAIN map : Abs(map[i][1] - z) <= Abs(map[j][1] - z)
               /\ found = map[i][2]
         \/ /\ \A i \in DOMAIN map : Abs(map[i][1] - z) >= EPS
            /\ found = "None"

\* C17: a lookup in a non-empty map returns the level of the key equal to
\* the elevation if there is one, else the level of a nearest key if that key
\* is within 1e-3, else None; never the level of a key farther than 1e-3.
C17_LookupTolerance ==
    (pc = "mapped" /\ base_map # <<>>) =>
        /\ \A z \in LookupQueries(base_map) :
              \A found \in find_level_by_base_elev(base_map, z) :
                 LookupAsSpecified(base_map, z, found)
        /\ \A z \in LookupQueries(top_map) :
              \A found \in find_level_by_top_elev(top_map, z) :
                 LookupAsSpecified(top_map, z, found)

\* A ledger of two floors 10 apart: the upper floor is found one tick
\* inside the tolerance below its key and not found one tick outside it.
C17_Witness ==
    /\ pc = "mapped"
    /\ Len(base_map) = 2
    /\ base_map[2][1] = 10^8
    /\ find_level_by_base_elev(base_map, 10^8 - EPS + 1) = {base_map[2][2]}
    /\ find_level_by_base_elev(base_map, 10^8 - EPS - 1) = {"None"}
    /\ find_level_by_top_elev(top_map, 10^8 + 3) = {top_map[1][2]}

\* The outcomes of "a key of the map lies within the tolerance of z".
WithinTolerance(map, z) ==
    IF \E i \in DOMAIN map : Abs(map[i][1] - z) < EPS THEN {TRUE}
    ELSE IF \A i \in DOMAIN map : Abs(map[i][1] - z) > EPS THEN {FALSE}
    ELSE BOOLEAN

\* The labels of the keys of the map nearest to z.
NearestLabels(map, z) ==
    {map[i][2] : i \in {i \in DOMAIN map :
                          \A j \in DOMAIN map : Abs(map[i][1] - z) <= Abs(map[j][1] - z)}}

\* C18: an elevation resolves to the floor map's match within tolerance if
\* there is one, else to the ceiling map's match within tolerance if there
\* is one, else to the label of the nearest floor key; an elevation that is
\* a floor key and a ceiling key takes the floor's label; a label is always
\* found when the floor map is not empty.
C18_ResolutionOrder ==
    (pc = "mapped" /\ base_map # <<>>) =>
        \A z \in LookupQueries(base_map) \cup LookupQueries(top_map) :
            \A l \in nearest_level_for_z(base_map, top_map, z) :
                /\ l # "None"
                /\ \E b \in WithinTolerance(base_map, z),
                      t \in WithinTolerance(top_map, z) :
                      IF b THEN l \in NearestLabels(base_map, z)
                      ELSE IF t THEN l \in NearestLabels(top_map, z)
                      ELSE l \in NearestLabels(base_map, z)
                /\ DictHas(base_map, z) => l = DictGet(base_map, z)

\* A ledger of three stories 10 apart: the boundary between the lower two
\* is a floor key and a ceiling key with different labels and resolves to
\* the floor's; the roof resolves through the ceiling map; an elevation far
\* above the roof resolves to the nearest floor.
C18_Witness ==
    /\ pc = "mapped"
    /\ heights_list = <<10^8, 10^8, 10^8>>
    /\ DictHas(base_map, 10^8) /\ DictHas(top_map, 10^8)
    /\ DictGet(base_map, 10^8) # DictGet(top_map, 10^8)
    /\ nearest_level_for_z(base_map, top_map, 10^8) = {DictGet(base_map, 10^8)}
    /\ find_level_by_base_elev(base_map, 3 * 10^8) = {"None"}
    /\ nearest_level_for_z(base_map, top_map, 3 * 10^8) = {DictGet(top_map, 3 * 10^8)}
    /\ find_level_by_top_elev(top_map, 3 * 10^8 + EPS + 1) = {"None"}
    /\ nearest_level_for_z(base_map, top_map, 3 * 10^8 + EPS + 1)
          = {DictGet(base_map, 2 * 10^8)}

(***************************************************************************)
(* Properties of the wall panels.                                          *)
(***************************************************************************)
\* The panel g is the quad of the line from (x1, y1) to (x2, y2) between
\* z_bottom and z_top: start-bottom, end-bottom, end-top, start-top.
IsWallQuad(g, x1, y1, x2, y2, z_bottom, z_top) ==
    /\ g.num_points = 4
    /\ g.x_coord = <<x1, x2, x2, x1>>
    /\ g.y_coord = <<y1, y2, y2, y1>>
    /\ g.z_coord = <<z_bottom, z_bottom, z_top, z_top>>

\* The wall lines of the plan of the i-th story.
StoryWallLines(i) ==
    IF NoPlan(stories[i]) THEN {}
    ELSE Range(get_lines_by_layer(read_dxf_plan(stories[i].dxf_path)[1], "WALL"))
         \cup Range(get_lines_by_layer(read_dxf_plan(stories[i].dxf_path)[1], "WALL Y"))

\* C19: every wall panel either extruder emits is the 4-vertex quad of one
\* wall line and one story band in the winding start-bottom, end-bottom,
\* end-top, start-top, in the plan coordinates and band of that extruder.
C19_WallQuadWinding ==
    /\ pc = "walls" =>
          \A k \in DOMAIN wall_geometries :
             \E l \in DOMAIN dxf_lines, i \in DOMAIN stories :
                IsWallQuad(wall_geometries[k],
                           dxf_lines[l][1][1], dxf_lines[l][1][2],
                           dxf_lines[l][2][1], dxf_lines[l][2][2],
                           FloorElev(i) * 12, CeilElev(i) * 12)
    /\ pc = "levels" =>
          \A k \in DOMAIN wall_geometries :
             \E i \in DOMAIN stories :
                \E ln \in StoryWallLines(i) :
                   IsWallQuad(wall_geometries[k],
                              ln[1][1] * unit_config.length_to_model,
                              ln[1][2] * unit_config.length_to_model,
                              ln[2][1] * unit_config.length_to_model,
                              ln[2][2] * unit_config.length_to_model,
                              BandBottom(i), BandTop(i))

\* A per-story run of two stories on the first plan that emitted the panels
\* of both wall layers for both stories.
C19_Witness ==
    /\ pc = "levels"
    /\ Len(stories) = 2
    /\ stories[1].dxf_path = "planA.dxf"
    /\ stories[2].dxf_path = "planA.dxf"
    /\ Len(wall_geometries) = 4

\* The panel g is the panel of a line of this layer of the i-th story's plan.
IsPanelOfLayer(g, i, layer) ==
    /\ ~NoPlan(stories[i])
    /\ \E ln \in Range(get_lines_by_layer(read_dxf_plan(stories[i].dxf_path)[1], layer)) :
          IsWallQuad(g, ln[1][1] * unit_config.length_to_model,
                        ln[1][2] * unit_config.length_to_model,
                        ln[2][1] * unit_config.length_to_model,
                        ln[2][2] * unit_config.length_to_model,
                        BandBottom(i), BandTop(i))

\* C20: with an X-named and a Y-named wall record on a story's level, a
\* line of the X-direction wall layer takes the record whose name contains
\* "X" and a line of the Y-direction wall layer the record whose name
\* contains "Y".
C20_WallDirectionMatches ==
    pc = "levels" =>
        \A k \in DOMAIN wall_geometries, i \in DOMAIN stories :
            /\ IsPanelOfLayer(wall_geometries[k], i, "WALL") =>
                  wall_geometries[k].prop_name \in Range(WallNamesX)
            /\ IsPanelOfLayer(wall_geometries[k], i, "WALL Y") =>
                  wall_geometries[k].prop_name \in Range(WallNamesY)

(***************************************************************************)
(* Properties of the coupling beams of the per-story run.                  *)
(***************************************************************************)
\* The beams emitted for this line at the ceiling of the i-th story.
BeamsOfLine(ln, i) ==
    {k \in DOMAIN beam_geometries :
        /\ beam_geometries[k].start_point =
              <<ln[1][1] * unit_config.length_to_model,
                ln[1][2] * unit_config.length_to_model, BandTop(i)>>
        /\ beam_geometries[k].end_point =
              <<ln[2][1] * unit_config.length_to_model,
                ln[2][2] * unit_config.length_to_model, BandTop(i)>>}

\* C21: every coupling-beam line of a story's plan, on the X-direction layer
\* or on the Y-direction layer, yields exactly one beam at the ceiling of
\* the story, when the story's level has a coupling-beam record.
C21_OneBeamPerLineAtCeiling ==
    pc = "levels" =>
        \A i \in DOMAIN stories :
            (~NoPlan(stories[i]) /\ HasRecord(coupling_beams, stories[i].level)) =>
                \A layer \in {"CB X", "CB Y"} :
                    \A ln \in Range(get_lines_by_layer(
                                 read_dxf_plan(stories[i].dxf_path)[1], layer)) :
                        Cardinality(BeamsOfLine(ln, i)) = 1

(***************************************************************************)
(* Properties of the material definitions.                                 *)
(***************************************************************************)
\* The log is the log of define_concrete_materials.
ConcreteLog ==
    /\ pc \in {"defined", "error"}
    /\ etabs_calls # <<>>
    /\ etabs_calls[1].api = "PropMaterial.GetNameList"

\* The calls of the log after the name list.
MaterialCalls == Tail(etabs_calls)

MaterialOrder ==
    <<"PropMaterial.SetMaterial", "PropMaterial.SetMPIsotropic",
      "PropMaterial.SetOConcrete_1">>

\* C22: the calls of define_concrete_materials come in groups of three per
\* material, base type, isotropic properties, stress-strain parameters, in
\* this order and for one material name; the groups do not interleave, and
\* every group is complete unless a call raised.
C22_MaterialCallOrder ==
    ConcreteLog =>
        /\ \A k \in DOMAIN MaterialCalls :
              /\ MaterialCalls[k].api = MaterialOrder[((k - 1) % 3) + 1]
              /\ MaterialCalls[k].name = MaterialCalls[k - ((k - 1) % 3)].name
        /\ (\A k \in DOMAIN etabs_calls : etabs_calls[k].ret # <<>>) =>
              Len(MaterialCalls) % 3 = 0

\* Two materials defined, six calls after the name list.
C22_Witness ==
    /\ ConcreteLog
    /\ pc = "defined"
    /\ Len(concretes) = 2
    /\ Len(MaterialCalls) = 6
    /\ MaterialCalls[1].name # MaterialCalls[4].name
    /\ \A k \in DOMAIN etabs_calls : etabs_calls[k].ret = <<0>>

(***************************************************************************)
(* Properties of the reconciler's merge.                                   *)
(***************************************************************************)
\* The bottom of the i-th segment of a column stack: 0 for the first, else
\* the top below.
StackBottom(stack, i) == IF i = 1 THEN 0 ELSE stack[i - 1][3]

\* The segments of the column stacks, stack by stack, bottom-up.
ColumnSegments ==
    Flatten([k \in DOMAIN columns_geo |->
        [i \in DOMAIN columns_geo[k] |->
            <<(<<columns_geo[k][1][1], columns_geo[k][1][2],
                 StackBottom(columns_geo[k], i)>>), columns_geo[k][i]>>]])

\* A merged record has no property exactly when the table has no record of
\* its level.
PropAbsentIffNoRecord(rec, table) ==
    (rec.prop = <<>>) <=> ~HasRecord(table, rec.level)

\* One record per segment, in order, each with its geometry as handed in
\* and with no property when its level has no record.
ColumnRecordPerSegment ==
    /\ Len(merged_columns) = Len(ColumnSegments)
    /\ \A i \in DOMAIN merged_columns :
          /\ merged_columns[i].geom = ColumnSegments[i]
          /\ PropAbsentIffNoRecord(merged_columns[i], rect_columns)

WallRecordPerQuad ==
    /\ Len(merged_walls) = Len(Flatten(walls_geo))
    /\ \A i \in DOMAIN merged_walls :
          /\ merged_walls[i].geom = Flatten(walls_geo)[i]
          /\ PropAbsentIffNoRecord(merged_walls[i], walls)

SlabRecordPerPolygon ==
    /\ Len(merged_slabs) = Len(Flatten(slabs_geo))
    /\ \A i \in DOMAIN merged_slabs :
          /\ merged_slabs[i].geom = Flatten(slabs_geo)[i]
          /\ PropAbsentIffNoRecord(merged_slabs[i], slabs)

\* A stack without a point, a quad without a vertex, a polygon without a
\* vertex.
EmptyStackInHand == \E k \in DOMAIN columns_geo : columns_geo[k] = <<>>

EmptyQuadInHand == \E q \in DOMAIN Flatten(walls_geo) : Flatten(walls_geo)[q] = <<>>

EmptyPolygonInHand == \E q \in DOMAIN Flatten(slabs_geo) : Flatten(slabs_geo)[q] = <<>>

BoundaryLabels(i) ==
    LET z == CeilingOf(i)
    IN  /\ \A k \in DOMAIN merged_columns :
              merged_columns[k].geom[1][3] = z =>
                  merged_columns[k].level = FrameStories[i + 1].level
        /\ \A k \in DOMAIN merged_walls :
              merged_walls[k].geom[1][3] = z =>
                  merged_walls[k].level = FrameStories[i + 1].level
        /\ \A k \in DOMAIN merged_slabs :
              merged_slabs[k].geom[1][3] = z =>
                  merged_slabs[k].level = FrameStories[i].level

\* C24 as stated: on every interior story boundary of every frame of stories
\* with positive heights, a column or wall segment whose bottom is the
\* boundary is labelled with the story above it and a slab whose top is the
\* boundary with the story below it.
C24_BoundaryLabels_AnyHeight ==
    pc = "merged" =>
        \A i \in 1..(Len(FrameStories) - 1) : BoundaryLabels(i)

\* C24 amended: the same, for frames whose story heights are greater than
\* 1e-6, the step of the rounded keys.
C24_BoundaryLabels ==
    (pc = "merged" /\ HeightsResolved) =>
        \A i \in 1..(Len(FrameStories) - 1) : BoundaryLabels(i)

\* A merge of three stories 10 high with exact column tops: on the boundary
\* at 10 stand a column and a wall segment of the second story and lies the
\* slab of the first.
C24_Witness ==
    /\ pc = "merged"
    /\ heights_list = <<10^8, 10^8, 10^8>>
    /\ merged_columns[2].geom[1][3] = 10^8
    /\ merged_columns[2].level = FrameStories[2].level
    /\ merged_walls[2].geom[1][3] = 10^8
    /\ merged_walls[2].level = FrameStories[2].level
    /\ merged_slabs[1].geom[1][3] = 10^8
    /\ merged_slabs[1].level = FrameStories[1].level
    /\ FrameStories[1].level # FrameStories[2].level

\* The rows of a sheet that precede its first row with a blank key.
RECURSIVE RowsBeforeBlank(_)
RowsBeforeBlank(rows) ==
    IF rows = <<>> \/ Head(rows).level = "" THEN <<>>
    ELSE <<Head(rows)>> \o RowsBeforeBlank(Tail(rows))

\* C25: the Story table reader stops at the first row whose level is blank:
\* the stories it returns are the rows before that row, in reversed sheet
\* order, and no row after a blank row is returned.
C25_ReaderStopsAtBlankKey ==
    pc = "stories" => stories = Reverse(RowsBeforeBlank(sheet_rows))

(***************************************************************************)
(* Properties of the story bands of the per-story run.                     *)
(***************************************************************************)
\* C26: in the per-story run the bands are contiguous and ordered: the
\* first floor is the base elevation in model units, every ceiling is the
\* floor plus the height in model units and is the floor of the next story,
\* the columns and walls of a story span its band and its beams and slabs
\* lie at its ceiling.
C26_BandsContiguous ==
    pc = "levels" =>
        LET f == unit_config.length_to_model
            z_bottom(i) == LevelBottom(stories, base_elevation, unit_config, i)
            z_top(i) == LevelTop(stories, base_elevation, unit_config, i)
        IN  /\ z_bottom(1) = base_elevation * f
            /\ \A i \in DOMAIN stories :
                  /\ z_top(i) = z_bottom(i) + stories[i].height * f
                  /\ z_bottom(i) < z_top(i)
                  /\ i < Len(stories) => z_top(i) = z_bottom(i + 1)
            /\ column_geometries = Flatten([i \in DOMAIN stories |->
                  extrude_level_columns(stories[i], BandBottom(i), BandTop(i),
                                        rect_columns, circ_columns, unit_config)])
            /\ wall_geometries = Flatten([i \in DOMAIN stories |->
                  extrude_level_walls(stories[i], BandBottom(i), BandTop(i),
                                      walls, unit_config)])
            /\ beam_geometries = Flatten([i \in DOMAIN stories |->
                  extrude_level_beams(stories[i], BandTop(i), coupling_beams,
                                      unit_config)])
            /\ slab_geometries = Flatten([i \in DOMAIN stories |->
                  extrude_level_slabs(stories[i], BandTop(i), slabs, unit_config)])

\* A per-story run of two stories above a base elevation of -18, both with a
\* plan, that emitted columns, walls, a beam and slabs in both bands.
C26_Witness ==
    /\ pc = "levels"
    /\ base_elevation = -18
    /\ Len(stories) = 2
    /\ stories[1].dxf_path = "planA.dxf"
    /\ stories[2].dxf_path = "planB.dxf"
    /\ \E k \in DOMAIN column_geometries :
          column_geometries[k].start_point[3] = BandBottom(2)
    /\ \E k \in DOMAIN column_geometries :
          column_geometries[k].end_point[3] = BandTop(1)
    /\ \E k \in DOMAIN wall_geometries : wall_geometries[k].z_coord[3] = BandTop(2)
    /\ \E k \in DOMAIN wall_geometries : wall_geometries[k].z_coord[1] = BandBottom(1)
    /\ \E k \in DOMAIN beam_geometries : beam_geometries[k].start_point[3] = BandTop(1)
    /\ \E k \in DOMAIN slab_geometries : slab_geometries[k].z_coord[1] = BandTop(2)

(***************************************************************************)
(* Properties of the slab loads.                                           *)
(***************************************************************************)
\* C27: a uniform-load assignment is issued for a slab only if the create
\* call of that slab returned status 0, and never with the value 0.
C27_LoadsOnlyForCreatedSlabs ==
    \A c \in DOMAIN etabs_calls :
        etabs_calls[c].api = "AreaObj.SetLoadUniform" =>
            /\ etabs_calls[c].value.num # 0
            /\ \E a \in 1..(c - 1) :
                  /\ etabs_calls[a].api = "AreaObj.AddByCoord"
                  /\ etabs_calls[a].geom = etabs_calls[c].geom
                  /\ etabs_calls[a].ret = <<0>>

(***************************************************************************)
(* Properties of the define operations: names.                             *)
(***************************************************************************)
\* The calls of the log that define this name through this function.
DefinitionsOf(api, name) ==
    {k \in DOMAIN etabs_calls :
        etabs_calls[k].api = api /\ etabs_calls[k].name = name}

\* The defining functions of the operations that take a table of records.
TableDefineApis ==
    {"PropMaterial.SetMaterial", "PropMaterial.SetMPIsotropic",
     "PropMaterial.SetOConcrete_1", "PropArea.SetWall", "PropArea.SetSlab",
     "PropFrame.SetRectangle", "PropFrame.SetRebarBeam"}

\* C28: within one define operation on a table of records, every name is
\* defined at most once, however many records share it, and a name the
\* modelling program already holds is not defined at all.
C28_OneDefinitionPerName ==
    pc \in {"defined", "error"} =>
        \A k \in DOMAIN etabs_calls :
            etabs_calls[k].api \in TableDefineApis =>
                /\ Cardinality(DefinitionsOf(etabs_calls[k].api,
                                             etabs_calls[k].name)) = 1
                /\ etabs_calls[k].name \notin existing_names

(***************************************************************************)
(* Properties of the per-story run: stories without a plan.                *)
(***************************************************************************)
\* The elements of the four lists that lie in the band of the i-th story.
ColumnsInBand(i) ==
    {k \in DOMAIN column_geometries :
        column_geometries[k].start_point[3] = BandBottom(i)}

WallsInBand(i) ==
    {k \in DOMAIN wall_geometries : wall_geometries[k].z_coord[1] = BandBottom(i)}

BeamsInBand(i) ==
    {k \in DOMAIN beam_geometries : beam_geometries[k].start_point[3] = BandTop(i)}

SlabsInBand(i) ==
    {k \in DOMAIN slab_geometries : slab_geometries[k].z_coord[1] = BandTop(i)}

\* C30: in the per-story run a story whose plan path is empty or names no
\* file contributes no column, wall, beam or slab and does not stop the run:
\* every story with a plan has the elements of its plan in its band (one
\* column per point of a column layer with a record of the story's level,
\* one panel per wall line, one slab per polygon likewise), and in each of
\* the four lists the elements of a lower story come before those of a
\* higher one.
C30_NoPlanStoryContributesNothing ==
    pc = "levels" =>
        /\ \A i \in DOMAIN stories :
              NoPlan(stories[i]) =>
                  /\ ColumnsInBand(i) = {}
                  /\ WallsInBand(i) = {}
                  /\ BeamsInBand(i) = {}
                  /\ SlabsInBand(i) = {}
        /\ \A i \in DOMAIN stories :
              ~NoPlan(stories[i]) =>
                  LET doc == read_dxf_plan(stories[i].dxf_path)[1]
                      level == stories[i].level
                  IN  /\ Cardinality(ColumnsInBand(i)) =
                            (IF HasRecord(rect_columns, level)
                             THEN Len(get_points_by_layer(doc, "REC COLS")) ELSE 0)
                            + (IF HasRecord(circ_columns, level)
                               THEN Len(get_points_by_layer(doc, "CIR COLS")) ELSE 0)
                      /\ Cardinality(WallsInBand(i)) =
                            (IF HasRecord(walls, level)
                             THEN Len(get_lines_by_layer(doc, "WALL"))
                                  + Len(get_lines_by_layer(doc, "WALL Y"))
                             ELSE 0)
                      /\ Cardinality(SlabsInBand(i)) =
                            (IF HasRecord(slabs, level)
                             THEN Len(get_polylines_by_layer(doc, "SLAB")) ELSE 0)
        /\ \A i, j \in DOMAIN stories :
              i < j =>
                  /\ \A a \in ColumnsInBand(i), b \in ColumnsInBand(j) : a < b
                  /\ \A a \in WallsInBand(i), b \in WallsInBand(j) : a < b
                  /\ \A a \in BeamsInBand(i), b \in BeamsInBand(j) : a < b
                  /\ \A a \in SlabsInBand(i), b \in SlabsInBand(j) : a < b

\* A per-story run of two stories whose first story names a file that does
\* not exist and whose second story has a plan: the lists hold the columns,
\* panels and slabs of the second story only.
C30_Witness ==
    /\ pc = "levels"
    /\ Len(stories) = 2
    /\ stories[1].dxf_path = "missing.dxf"
    /\ stories[2].dxf_path = "planA.dxf"
    /\ ColumnsInBand(1) = {} /\ ColumnsInBand(2) # {}
    /\ WallsInBand(1) = {} /\ WallsInBand(2) # {}
    /\ SlabsInBand(1) = {} /\ SlabsInBand(2) # {}

================================================================================
